---- MODULE Spec2Model ----
(***************************************************************************)
(* A model of the story-progress data model of BCSFE-Python                *)
(* (src/src/bcsfe/core/game/map/story.py): Stage, Chapter and the          *)
(* StoryChapters container, their stream codec and their mutation          *)
(* operations.  Python objects are records, Python lists are sequences     *)
(* (stage index i of the source is position i + 1 here), and an operation  *)
(* that can raise IndexError returns the state it leaves behind together   *)
(* with a "raised" flag.                                                   *)
(***************************************************************************)
EXTENDS Integers, Sequences, FiniteSets, TLC

VARIABLES
    chapter,   \* SpecChapter: one Chapter object
    chLast,    \* SpecChapter: the last Chapter method called, with its arguments
    chOps,     \* SpecChapter: number of methods called so far
    story,     \* SpecStory: the chapters list of a StoryChapters object
    stream,    \* SpecStory: the input stream (core.Data) being decoded
    output,    \* SpecStory: the integers written by StoryChapters.write
    origin,    \* SpecStory: how the container was made: "init", "read", "deserialize"
    stLast,    \* SpecStory: the last StoryChapters operation, with its arguments
    stOps,     \* SpecStory: number of mutation operations so far
    cvIndex,   \* SpecConvert: the stage index handed to convert_stage_id
    cvOut,     \* SpecConvert: the results of the successive conversions
    csvData,   \* SpecCsv: the text (file_data) the CSV object was made from
    csvConfig, \* SpecCsv: delimeter, remove_comments and remove_empty of the object
    csvLines,  \* SpecCsv: self.lines, the rows, each a sequence of cell texts
    csvIndex,  \* SpecCsv: self.index, the cursor of read_line
    csvLast,   \* SpecCsv: the last CSV method called, with what it returned
    csvSaves,  \* SpecCsv: number of times the table was written out and parsed again
    sgStage,   \* SpecStage: one Stage object
    sgLast,    \* SpecStage: the last Stage method called, with what it returned
    sgOps,     \* SpecStage: number of methods called so far
    itLoop, \* SpecCsvIter: the for loop over the CSV object: "none", "running", "done"
    itYield, \* SpecCsvIter: the rows the running or finished loop was given
    rmIn, \* SpecRunMany: the arguments of run_many: funcs, args, max_threads
    rmMain, \* SpecRunMany: where the caller of run_many is, and how many threads it has joined
    rmChunks, \* SpecRunMany: callable_chunks and args_chunks
    rmThreads, \* SpecRunMany: the threads started, each with its arguments and its position in run_many_helper
    rmCalls, \* SpecRunMany: for each function the argument lists it was invoked with, in order
    ctIn, \* SpecColor: the string handed to ColoredText.parse, as its tagged and plain pieces
    ctOut, \* SpecColor: the list of (text, color) that parse returned
    ctDone, \* SpecColor: whether parse has been called
    kcChapters, \* SpecChapters: a Chapters container: groups (ChaptersStars) of chapters
    kcFlag, \* SpecChapters: write_every_time / read_every_time
    kcOut, \* SpecChapters: the stream Chapters.write wrote
    kcBack, \* SpecChapters: the container Chapters.read made from that stream
    kcLast, \* SpecChapters: the last call, whether it raised, and the stream read
    tpStats, \* SpecTrade: save_stats: trade_progress, cat_storage (ids, types), rare_tickets
    tpLast, \* SpecTrade: the last call, with the ticket count entered and whether a slot was free
    tpOps \* SpecTrade: number of calls of set_trade_progress so far

chVars == <<chapter, chLast, chOps>>
stVars == <<story, stream, output, origin, stLast, stOps>>
cvVars == <<cvIndex, cvOut>>
csvVars == <<csvData, csvConfig, csvLines, csvIndex, csvLast, csvSaves>>
sgVars == <<sgStage, sgLast, sgOps>>
itVars == <<itLoop, itYield>>
rmVars == <<rmIn, rmMain, rmChunks, rmThreads, rmCalls>>
ctVars == <<ctIn, ctOut, ctDone>>
kcVars == <<kcChapters, kcFlag, kcOut, kcBack, kcLast>>
tpVars == <<tpStats, tpLast, tpOps>>
\* What the actions of one specification leave alone: the other specifications.
chOthers == <<stVars, cvVars, csvVars, sgVars, itVars, rmVars, ctVars, kcVars, tpVars>>
stOthers == <<chVars, cvVars, csvVars, sgVars, itVars, rmVars, ctVars, kcVars, tpVars>>
cvOthers == <<chVars, stVars, csvVars, sgVars, itVars, rmVars, ctVars, kcVars, tpVars>>
csvOthers == <<chVars, stVars, cvVars, sgVars, itVars, rmVars, ctVars, kcVars, tpVars>>
sgOthers == <<chVars, stVars, cvVars, csvVars, itVars, rmVars, ctVars, kcVars, tpVars>>
itOthers == <<chVars, stVars, cvVars, csvVars, sgVars, rmVars, ctVars, kcVars, tpVars>>
ciOthers == <<chVars, stVars, cvVars, sgVars, rmVars, ctVars, kcVars, tpVars>>
rmOthers == <<chVars, stVars, cvVars, csvVars, sgVars, itVars, ctVars, kcVars, tpVars>>
ctOthers == <<chVars, stVars, cvVars, csvVars, sgVars, itVars, rmVars, kcVars, tpVars>>
kcOthers == <<chVars, stVars, cvVars, csvVars, sgVars, itVars, rmVars, ctVars, tpVars>>
tpOthers == <<chVars, stVars, cvVars, csvVars, sgVars, itVars, rmVars, ctVars, kcVars>>
vars == <<chapter, chLast, chOps, story, stream, output, origin, stLast, stOps,
          cvIndex, cvOut, csvData, csvConfig, csvLines, csvIndex, csvLast, csvSaves,
          sgStage, sgLast, sgOps,
          itLoop, itYield,
          rmIn, rmMain, rmChunks, rmThreads, rmCalls,
          ctIn, ctOut, ctDone,
          kcChapters, kcFlag, kcOut, kcBack, kcLast,
          tpStats, tpLast, tpOps>>

(***************************************************************************)
(* Program constants.                                                      *)
(***************************************************************************)
total_stages == 51
treasure_stages == 49
max_stages == 48
total_chapters == 10
skipped_chapter == 3
last_reversed_stage == 45

(***************************************************************************)
(* Bounds of the model.                                                    *)
(***************************************************************************)
MaxChapterOps == 1
MaxStoryOps == 1
MaxValue == 2
MaxSeed == 2
MaxLoadPasses == 2
MaxTextLen == 3
MaxIndex == 2
MaxSaves == 1
MaxStageOps == 4
MaxClearStories == 1
MaxCsvEdits == 2
MaxLoops == 2
MaxFuncs == 5
MaxThreads == 3
MaxPieces == 4
MaxGroups == 2
MaxStars == 2
MaxStages == 2
MaxSlots == 3
MaxTickets == 2
MaxTradeOps == 1
MaxConversions == 2

Max(a, b) == IF a >= b THEN a ELSE b
Min(a, b) == IF a <= b THEN a ELSE b

\* dict.get(key, default)
DictGet(d, key, default) == IF key \in DOMAIN d THEN d[key] ELSE default

(***************************************************************************)
(* core.Data, the integer stream.  A stream is the integers it holds, the  *)
(* number already consumed, and whether a read ran past the end.  The      *)
(* integers a stream holds are given by its kind and seed: "gen" holds     *)
(* integers in 0..MaxValue that differ from seed to seed, "ramp" holds     *)
(* 1, 2, 3, ... (all different), "const" holds the seed itself, "data"     *)
(* holds the integers written to it before.                                *)
(***************************************************************************)
NewStream(gen, seed, len) ==
    [gen |-> gen, seed |-> seed, len |-> len, pos |-> 0, err |-> FALSE]

\* The stream that holds the integers written, read from its start.
DataStream(written) ==
    [gen |-> "data", seed |-> 0, len |-> Len(written), pos |-> 0, err |-> FALSE,
     data |-> written]

IntAt(s, i) ==
    CASE s.gen = "ramp" -> i
      [] s.gen = "data" -> s.data[i]
      [] s.gen = "const" -> s.seed
      [] OTHER -> (i * (s.seed + 1) + s.seed) % (MaxValue + 1)

StreamData(s) == [i \in 1..s.len |-> IntAt(s, i)]

\* read_int: the next integer; a read past the end fails and consumes nothing.
ReadInt(s) ==
    IF s.err \/ s.pos >= s.len
    THEN [val |-> 0, stream |-> [s EXCEPT !.err = TRUE]]
    ELSE [val |-> IntAt(s, s.pos + 1), stream |-> [s EXCEPT !.pos = @ + 1]]

\* The stream after k more calls of read_int: the call that finds nothing left
\* fails, and so does every call after it.
Skip(s, k) ==
    IF s.err \/ s.pos + k > s.len
    THEN [s EXCEPT !.pos = IF s.err THEN @ ELSE s.len, !.err = TRUE]
    ELSE [s EXCEPT !.pos = @ + k]

\* write_int: appends one integer.
WriteInt(out, v) == Append(out, v)

(***************************************************************************)
(* class Stage                                                             *)
(***************************************************************************)
Stage(clear_times) ==
    [clear_times |-> clear_times, treasure |-> 0, itf_timed_score |-> 0]

Stage_init == Stage(0)

Stage_read_clear_times(s) ==
    LET r == ReadInt(s) IN [stage |-> Stage(r.val), stream |-> r.stream]

Stage_read_treasure(st, s) ==
    LET r == ReadInt(s)
    IN  [stage |-> IF r.stream.err THEN st ELSE [st EXCEPT !.treasure = r.val],
         stream |-> r.stream]

Stage_read_itf_timed_score(st, s) ==
    LET r == ReadInt(s)
    IN  [stage |-> IF r.stream.err THEN st ELSE [st EXCEPT !.itf_timed_score = r.val],
         stream |-> r.stream]

Stage_write_clear_times(st, out) == WriteInt(out, st.clear_times)

Stage_write_treasure(st, out) == WriteInt(out, st.treasure)

\* serialize without the "itf_timed_score" key.
SerializeWithoutTimedScore(st) ==
    [clear_times |-> st.clear_times, treasure |-> st.treasure]

Stage_serialize(st) ==
    [clear_times |-> st.clear_times, treasure |-> st.treasure,
     itf_timed_score |-> st.itf_timed_score]

Stage_deserialize(data) ==
    [clear_times |-> DictGet(data, "clear_times", 0),
     treasure |-> DictGet(data, "treasure", 0),
     itf_timed_score |-> DictGet(data, "itf_timed_score", 0)]

\* clear_stage setting clear_times to 1 without increase.
ClearStageSetOne(st, increase) ==
    IF increase
    THEN [st EXCEPT !.clear_times = @ + 1]
    ELSE [st EXCEPT !.clear_times = 1]

Stage_clear_stage(st, increase) ==
    IF increase
    THEN [st EXCEPT !.clear_times = @ + 1]
    ELSE [st EXCEPT !.clear_times = Max(@, 1)]

Stage_unclear_stage(st) == [st EXCEPT !.clear_times = 0]

Stage_is_cleared(st) == st.clear_times > 0

Stage_set_treasure(st, treasure) == [st EXCEPT !.treasure = treasure]

(***************************************************************************)
(* class Chapter                                                           *)
(***************************************************************************)
Chapter(selected_stage) ==
    [selected_stage |-> selected_stage,
     progress |-> 0,
     stages |-> [i \in 1..total_stages |-> Stage_init],
     time_until_treasure_chance |-> 0,
     treasure_chance_duration |-> 0,
     treasure_chance_value |-> 0,
     treasure_chance_stage_id |-> 0,
     treasure_festival_type |-> 0]

Chapter_init == Chapter(0)

\* self.stages[stage_id] raises IndexError when the list is too short
\* (stage ids are never negative here).
HasStage(ch, stage_id) == stage_id >= 0 /\ stage_id < Len(ch.stages)

\* clear_stage setting progress to stage_id + 1 when overwrite_progress is set.
ClearStageOverwriteNext(ch, stage_id, increase, overwrite_progress) ==
    IF ~HasStage(ch, stage_id)
    THEN [chapter |-> ch, raised |-> TRUE]
    ELSE [chapter |->
            [ch EXCEPT
               !.stages[stage_id + 1] = Stage_clear_stage(@, increase),
               !.progress = IF overwrite_progress
                            THEN stage_id + 1
                            ELSE Max(@, stage_id + 1)],
          raised |-> FALSE]

Chapter_clear_stage(ch, stage_id, increase, overwrite_progress) ==
    IF ~HasStage(ch, stage_id)
    THEN [chapter |-> ch, raised |-> TRUE]
    ELSE [chapter |->
            [ch EXCEPT
               !.stages[stage_id + 1] = Stage_clear_stage(@, increase),
               !.progress = IF overwrite_progress
                            THEN stage_id
                            ELSE Max(@, stage_id + 1)],
          raised |-> FALSE]

Chapter_set_treasure(ch, stage_id, treasure) ==
    IF ~HasStage(ch, stage_id)
    THEN [chapter |-> ch, raised |-> TRUE]
    ELSE [chapter |->
            [ch EXCEPT !.stages[stage_id + 1] = Stage_set_treasure(@, treasure)],
          raised |-> FALSE]

Chapter_is_stage_clear(ch, stage_id) == Stage_is_cleared(ch.stages[stage_id + 1])

\* self.stages[:49] and self.stages[:48]: the stage indices of the slice
\* (a slice of a shorter list is shorter, it does not raise).
Chapter_get_treasure_stages(ch) == 0..(Min(treasure_stages, Len(ch.stages)) - 1)

Chapter_get_valid_treasure_stages(ch) == 0..(Min(max_stages, Len(ch.stages)) - 1)

\* for i in range(lo, hi): self.stages[i].<op>() stops with IndexError at the
\* first index the list does not have: the stages before it are changed already.
LoopRaises(ch, lo, hi) == \E i \in lo..(hi - 1) : ~HasStage(ch, i)

UnclearLoop(ch, lo, hi) ==
    [ch EXCEPT !.stages =
        [j \in 1..Len(ch.stages) |->
            IF lo <= j - 1 /\ j - 1 < hi
            THEN Stage_unclear_stage(ch.stages[j])
            ELSE ch.stages[j]]]

ClearLoop(ch, lo, hi) ==
    [ch EXCEPT !.stages =
        [j \in 1..Len(ch.stages) |->
            IF lo <= j - 1 /\ j - 1 < hi
            THEN Stage_clear_stage(ch.stages[j], FALSE)
            ELSE ch.stages[j]]]

\* apply_progress without its first loop: nothing is uncleared.
ApplyProgressNoUnclear(ch, progress) ==
    LET c1 == [ch EXCEPT !.progress = progress]
    IN  [chapter |-> ClearLoop(c1, 0, progress),
         raised |-> LoopRaises(c1, 0, progress)]

\* apply_progress clearing the stages up to and with stage progress.
ApplyProgressClearingReached(ch, progress) ==
    LET c1 == [ch EXCEPT !.progress = progress]
        c2 == UnclearLoop(c1, progress + 1, max_stages)
    IN  IF LoopRaises(c1, progress + 1, max_stages)
        THEN [chapter |-> c2, raised |-> TRUE]
        ELSE [chapter |-> ClearLoop(c2, 0, progress + 1),
              raised |-> LoopRaises(c2, 0, progress + 1)]

Chapter_apply_progress(ch, progress) ==
    LET c1 == [ch EXCEPT !.progress = progress]
        c2 == UnclearLoop(c1, progress + 1, max_stages)
    IN  IF LoopRaises(c1, progress + 1, max_stages)
        THEN [chapter |-> c2, raised |-> TRUE]
        ELSE [chapter |-> ClearLoop(c2, 0, progress),
              raised |-> LoopRaises(c2, 0, progress)]

\* clear_chapter stopping one stage short.
ClearChapterOneShort(ch) == Chapter_apply_progress(ch, max_stages - 1)

Chapter_clear_chapter(ch) == Chapter_apply_progress(ch, max_stages)

Chapter_read_selected_stage(s) ==
    LET r == ReadInt(s) IN [chapter |-> Chapter(r.val), stream |-> r.stream]

Chapter_read_progress(ch, s) ==
    LET r == ReadInt(s)
    IN  [chapter |-> IF r.stream.err THEN ch ELSE [ch EXCEPT !.progress = r.val],
         stream |-> r.stream]

\* [Stage.read_clear_times(stream) for _ in range(51)]: the i-th call reads
\* from the stream the i - 1 calls before it left; the list is assigned only
\* when all 51 reads succeed.
Chapter_read_clear_times(ch, s) ==
    LET after == Skip(s, total_stages)
    IN  [chapter |->
            IF after.err THEN ch
            ELSE [ch EXCEPT !.stages =
                    [i \in 1..total_stages |-> Stage_read_clear_times(Skip(s, i - 1)).stage]],
         stream |-> after]

\* for stage in self.get_treasure_stages(): stage.read_treasure(stream): the
\* stages read before a failing read keep what they read.
Chapter_read_treasure(ch, s) ==
    LET n == Cardinality(Chapter_get_treasure_stages(ch))
    IN  [chapter |->
            [ch EXCEPT !.stages =
                [i \in 1..Len(ch.stages) |->
                    IF i <= n
                    THEN Stage_read_treasure(ch.stages[i], Skip(s, i - 1)).stage
                    ELSE ch.stages[i]]],
         stream |-> Skip(s, n)]

\* The five timed-event scalars, in the order read_treasure_festival reads them.
FestivalFields ==
    <<"time_until_treasure_chance", "treasure_chance_duration", "treasure_chance_value",
      "treasure_chance_stage_id", "treasure_festival_type">>

\* read_time_until_treasure_chance, read_treasure_chance_duration,
\* read_treasure_chance_value, read_treasure_chance_stage_id and
\* read_treasure_festival_type: self.<field> = stream.read_int()
Chapter_read_festival_field(field, ch, s) ==
    LET r == ReadInt(s)
    IN  [chapter |-> IF r.stream.err THEN ch ELSE [ch EXCEPT ![field] = r.val],
         stream |-> r.stream]

\* for stage in self.stages: stage.read_itf_timed_score(stream): the stages
\* read before a failing read keep what they read.
Chapter_read_itf_timed_scores(ch, s) ==
    [chapter |->
        [ch EXCEPT !.stages =
            [i \in 1..Len(ch.stages) |->
                Stage_read_itf_timed_score(ch.stages[i], Skip(s, i - 1)).stage]],
     stream |-> Skip(s, Len(ch.stages))]

Chapter_write_selected_stage(ch, out) == WriteInt(out, ch.selected_stage)

Chapter_write_progress(ch, out) == WriteInt(out, ch.progress)

\* for stage in self.stages: stage.write_clear_times(stream): every stage
\* appends its integer, in list order.
Chapter_write_clear_times(ch, out) ==
    out \o [i \in 1..Len(ch.stages) |->
              Stage_write_clear_times(ch.stages[i], <<>>)[1]]

\* write_treasure over the 48 valid treasure stages instead of the 49 read.
WriteValidTreasuresOnly(ch, out) ==
    out \o [i \in 1..Cardinality(Chapter_get_valid_treasure_stages(ch)) |->
              Stage_write_treasure(ch.stages[i], <<>>)[1]]

\* for stage in self.get_treasure_stages(): stage.write_treasure(stream)
Chapter_write_treasure(ch, out) ==
    out \o [i \in 1..Cardinality(Chapter_get_treasure_stages(ch)) |->
              Stage_write_treasure(ch.stages[i], <<>>)[1]]

Chapter_serialize(ch) ==
    [selected_stage |-> ch.selected_stage,
     progress |-> ch.progress,
     stages |-> [i \in 1..Len(ch.stages) |-> Stage_serialize(ch.stages[i])],
     time_until_treasure_chance |-> ch.time_until_treasure_chance,
     treasure_chance_duration |-> ch.treasure_chance_duration,
     treasure_chance_value |-> ch.treasure_chance_value,
     treasure_chance_stage_id |-> ch.treasure_chance_stage_id,
     treasure_festival_type |-> ch.treasure_festival_type]

Chapter_deserialize(data) ==
    LET stages == DictGet(data, "stages", <<>>)
    IN  [selected_stage |-> DictGet(data, "selected_stage", 0),
         progress |-> DictGet(data, "progress", 0),
         stages |-> [i \in 1..Len(stages) |-> Stage_deserialize(stages[i])],
         time_until_treasure_chance |-> DictGet(data, "time_until_treasure_chance", 0),
         treasure_chance_duration |-> DictGet(data, "treasure_chance_duration", 0),
         treasure_chance_value |-> DictGet(data, "treasure_chance_value", 0),
         treasure_chance_stage_id |-> DictGet(data, "treasure_chance_stage_id", 0),
         treasure_festival_type |-> DictGet(data, "treasure_festival_type", 0)]

(***************************************************************************)
(* class StoryChapters.  The object is its chapters list.  A Python list   *)
(* holds references: a chapter object is identified by its position in     *)
(* the container's list, and a list of chapter objects taken from the      *)
(* container is the sequence of their positions.                           *)
(***************************************************************************)
StoryChapters_get_real_chapters(chapters) ==
    SelectSeq([i \in 1..Len(chapters) |-> i], LAMBDA i : i - 1 # skipped_chapter)

StoryChapters_init == [i \in 1..total_chapters |-> Chapter_init]

StoryChapters_set_treasure(chapters, chapter_id, stage, treasure) ==
    IF chapter_id >= Len(chapters)
    THEN [chapters |-> chapters, raised |-> TRUE]
    ELSE LET r == Chapter_set_treasure(chapters[chapter_id + 1], stage, treasure)
         IN  [chapters |-> [chapters EXCEPT ![chapter_id + 1] = r.chapter],
              raised |-> r.raised]

\* [Chapter.read_selected_stage(stream) for _ in range(10)]: the i-th call
\* reads from the stream the i - 1 calls before it left.
ReadSelectedStages(s, n) ==
    [chapters |-> [i \in 1..n |-> Chapter_read_selected_stage(Skip(s, i - 1)).chapter],
     stream |-> Skip(s, n)]

\* One read pass: for chapter in chapters.chapters: chapter.read_<field>(stream)
ChapterReadField(field, ch, s) ==
    CASE field = "progress" -> Chapter_read_progress(ch, s)
      [] field = "clear_times" -> Chapter_read_clear_times(ch, s)
      [] field = "treasure" -> Chapter_read_treasure(ch, s)

\* The number of read_int calls chapter.read_<field> makes.
FieldReads(field, ch) ==
    CASE field = "progress" -> 1
      [] field = "clear_times" -> total_stages
      [] field = "treasure" -> Cardinality(Chapter_get_treasure_stages(ch))

\* The number of read_int calls of a pass before it comes to chapter i.
RECURSIVE ReadsBefore(_, _, _)
ReadsBefore(field, chapters, i) ==
    IF i <= 1 THEN 0
    ELSE ReadsBefore(field, chapters, i - 1) + FieldReads(field, chapters[i - 1])

\* Each chapter reads from the stream the chapters before it left; once a read
\* has failed the chapters after it are not reached and stay as they were.
ReadPass(field, chapters, s) ==
    [chapters |->
        [i \in 1..Len(chapters) |->
            ChapterReadField(field, chapters[i],
                             Skip(s, ReadsBefore(field, chapters, i))).chapter],
     stream |-> Skip(s, ReadsBefore(field, chapters, Len(chapters) + 1))]

\* read with the treasure pass before the clear_times pass.
ReadTreasureBeforeClearTimes(s) ==
    LET r1 == ReadSelectedStages(s, total_chapters)
        r2 == ReadPass("progress", r1.chapters, r1.stream)
        r3 == ReadPass("treasure", r2.chapters, r2.stream)
        r4 == ReadPass("clear_times", r3.chapters, r3.stream)
    IN  [chapters |-> r4.chapters, stream |-> r4.stream, raised |-> r4.stream.err]

\* The container read returns its container only when no read raised.
StoryChapters_read(s) ==
    LET r1 == ReadSelectedStages(s, total_chapters)
        r2 == ReadPass("progress", r1.chapters, r1.stream)
        r3 == ReadPass("clear_times", r2.chapters, r2.stream)
        r4 == ReadPass("treasure", r3.chapters, r3.stream)
    IN  [chapters |-> r4.chapters, stream |-> r4.stream, raised |-> r4.stream.err]

\* One pass of read_treasure_festival: every chapter reads one integer.
FestivalPass(field, chapters, s) ==
    [chapters |->
        [i \in 1..Len(chapters) |->
            Chapter_read_festival_field(field, chapters[i], Skip(s, i - 1)).chapter],
     stream |-> Skip(s, Len(chapters))]

\* read_treasure_festival reads into the chapters of the container itself: what
\* was read before a failing read_int stays in the container.
StoryChapters_read_treasure_festival(chapters, s) ==
    LET r1 == FestivalPass(FestivalFields[1], chapters, s)
        r2 == FestivalPass(FestivalFields[2], r1.chapters, r1.stream)
        r3 == FestivalPass(FestivalFields[3], r2.chapters, r2.stream)
        r4 == FestivalPass(FestivalFields[4], r3.chapters, r3.stream)
        r5 == FestivalPass(FestivalFields[5], r4.chapters, r4.stream)
    IN  [chapters |-> r5.chapters, stream |-> r5.stream, raised |-> r5.stream.err]

\* if i > 4 and i < 8, for the container index i
ItfChapter(i) == i > 4 /\ i < 8

\* The number of read_int calls of read_itf_timed_scores before it comes to
\* the chapter at position i of the list.
RECURSIVE ItfReadsBefore(_, _)
ItfReadsBefore(chapters, i) ==
    IF i <= 1 THEN 0
    ELSE ItfReadsBefore(chapters, i - 1)
         + (IF ItfChapter(i - 2) THEN Len(chapters[i - 1].stages) ELSE 0)

StoryChapters_read_itf_timed_scores(chapters, s) ==
    LET after == Skip(s, ItfReadsBefore(chapters, Len(chapters) + 1))
    IN  [chapters |->
            [i \in 1..Len(chapters) |->
                IF ItfChapter(i - 1)
                THEN Chapter_read_itf_timed_scores(
                         chapters[i], Skip(s, ItfReadsBefore(chapters, i))).chapter
                ELSE chapters[i]],
         stream |-> after,
         raised |-> after.err]

RECURSIVE Concat(_)
Concat(seqs) == IF seqs = <<>> THEN <<>> ELSE Head(seqs) \o Concat(Tail(seqs))

Stage_write_itf_timed_score(st, out) == WriteInt(out, st.itf_timed_score)

\* for stage in self.stages: stage.write_itf_timed_score(stream)
Chapter_write_itf_timed_scores(ch, out) ==
    out \o [i \in 1..Len(ch.stages) |-> ch.stages[i].itf_timed_score]

\* write_itf_timed_scores without the test of the index.
WriteItfAllChapters(chapters, out) ==
    out \o Concat([i \in 1..Len(chapters) |->
                      Chapter_write_itf_timed_scores(chapters[i], <<>>)])

\* for i, chapter in enumerate(self.chapters):
\*     if i > 4 and i < 8: chapter.write_itf_timed_scores(stream)
StoryChapters_write_itf_timed_scores(chapters, out) ==
    out \o Concat([i \in 1..Len(chapters) |->
                      IF ItfChapter(i - 1)
                      THEN Chapter_write_itf_timed_scores(chapters[i], <<>>)
                      ELSE <<>>])

\* One write pass: for chapter in self.chapters: chapter.write_<field>(stream)
ChapterWriteField(field, ch, out) ==
    CASE field = "selected_stage" -> Chapter_write_selected_stage(ch, out)
      [] field = "progress" -> Chapter_write_progress(ch, out)
      [] field = "clear_times" -> Chapter_write_clear_times(ch, out)
      [] field = "treasure" -> Chapter_write_treasure(ch, out)

\* The stream after a pass: what it held, then what each chapter appended, in
\* the order of the chapters.
WritePass(field, chapters, out) ==
    out \o Concat([i \in 1..Len(chapters) |-> ChapterWriteField(field, chapters[i], <<>>)])

StoryChapters_write(chapters, out) ==
    LET o1 == WritePass("selected_stage", chapters, out)
        o2 == WritePass("progress", chapters, o1)
        o3 == WritePass("clear_times", chapters, o2)
    IN  WritePass("treasure", chapters, o3)

StoryChapters_serialize(chapters) ==
    [i \in 1..Len(chapters) |-> Chapter_serialize(chapters[i])]

StoryChapters_deserialize(data) ==
    [i \in 1..Len(data) |-> Chapter_deserialize(data[i])]

\* convert_stage_id without the case of index 47.
ConvertWithoutLastStage(index) ==
    IF index = 46 THEN 46 ELSE last_reversed_stage - index

StoryChapters_convert_stage_id(index) ==
    IF index = 46 THEN 46
    ELSE IF index = 47 THEN 47
    ELSE last_reversed_stage - index

\* edit_stage_clear_count: get_real_chapters()[chapter_id].stages[stage_id]
\* gets the clear count the user gave.
StoryChapters_edit_stage_clear_count(chapters, chapter_id, stage_id, clear_count) ==
    LET real == StoryChapters_get_real_chapters(chapters)
    IN  IF chapter_id >= Len(real) \/ ~HasStage(chapters[real[chapter_id + 1]], stage_id)
        THEN [chapters |-> chapters, raised |-> TRUE]
        ELSE [chapters |->
                [chapters EXCEPT
                   ![real[chapter_id + 1]].stages[stage_id + 1].clear_times = clear_count],
              raised |-> FALSE]

\* The if-chain with the third era requiring the whole second era.
PreviousChaptersWholeEra(chapter_id) ==
    CASE chapter_id = 1 -> <<0>>
      [] chapter_id = 2 -> <<0, 1>>
      [] chapter_id = 3 -> <<0>>
      [] chapter_id = 4 -> <<0, 3>>
      [] chapter_id = 5 -> <<0, 3, 4>>
      [] chapter_id = 6 -> <<0, 3, 4, 5>>
      [] chapter_id = 7 -> <<0, 3, 4, 5, 6>>
      [] chapter_id = 8 -> <<0, 3, 4, 5, 6, 7>>
      [] OTHER -> <<>>

\* The chapters clear_previous_chapters clears, in the order of its if-chain.
PreviousChapters(chapter_id) ==
    CASE chapter_id = 1 -> <<0>>
      [] chapter_id = 2 -> <<0, 1>>
      [] chapter_id = 3 -> <<0>>
      [] chapter_id = 4 -> <<0, 3>>
      [] chapter_id = 5 -> <<0, 3, 4>>
      [] chapter_id = 6 -> <<0, 3>>
      [] chapter_id = 7 -> <<0, 3, 6>>
      [] chapter_id = 8 -> <<0, 3, 6, 7>>
      [] OTHER -> <<>>

\* chapters[i].clear_chapter() for each i of ids in turn; an IndexError (no such
\* real chapter, or a chapter with too few stages) ends the call there.
RECURSIVE ClearChapters(_, _, _, _)
ClearChapters(chapters, real, ids, i) ==
    IF i > Len(ids)
    THEN [chapters |-> chapters, raised |-> FALSE]
    ELSE IF ids[i] >= Len(real)
    THEN [chapters |-> chapters, raised |-> TRUE]
    ELSE LET r == Chapter_clear_chapter(chapters[real[ids[i] + 1]])
             next == [chapters EXCEPT ![real[ids[i] + 1]] = r.chapter]
         IN  IF r.raised
             THEN [chapters |-> next, raised |-> TRUE]
             ELSE ClearChapters(next, real, ids, i + 1)

StoryChapters_clear_previous_chapters(chapters, chapter_id) ==
    ClearChapters(chapters, StoryChapters_get_real_chapters(chapters),
                  PreviousChapters(chapter_id), 1)

\* edit_chapter_progress: the answer of the progress dialog is None
\* ([given |-> FALSE]) or a progress in 0..48, which is applied to the chapter;
\* the result tells whether it was not 0.
StoryChapters_edit_chapter_progress(chapters, chapter_id, answer) ==
    LET real == StoryChapters_get_real_chapters(chapters)
    IN  IF chapter_id >= Len(real)
        THEN [chapters |-> chapters, raised |-> TRUE, cleared_stages |-> FALSE]
        ELSE IF ~answer.given
        THEN [chapters |-> chapters, raised |-> FALSE, cleared_stages |-> FALSE]
        ELSE LET r == Chapter_apply_progress(chapters[real[chapter_id + 1]], answer.val)
             IN  [chapters |-> [chapters EXCEPT ![real[chapter_id + 1]] = r.chapter],
                  raised |-> r.raised,
                  cleared_stages |-> answer.val # 0]

\* clear_story, choice 0: each selected chapter in turn gets the progress the
\* user gives for it, and its previous chapters are cleared when that is not 0.
RECURSIVE ClearStoryIndividual(_, _, _, _)
ClearStoryIndividual(chapters, selected, answers, i) ==
    IF i > Len(selected)
    THEN [chapters |-> chapters, raised |-> FALSE]
    ELSE LET e == StoryChapters_edit_chapter_progress(chapters, selected[i], answers[i])
             c == IF e.cleared_stages
                  THEN StoryChapters_clear_previous_chapters(e.chapters, selected[i])
                  ELSE [chapters |-> e.chapters, raised |-> FALSE]
         IN  IF e.raised THEN [chapters |-> e.chapters, raised |-> TRUE]
             ELSE IF c.raised THEN c
             ELSE ClearStoryIndividual(c.chapters, selected, answers, i + 1)

\* clear_story, choice 1: one progress for all: for each selected chapter in
\* turn its previous chapters are cleared when the progress is not 0, then the
\* progress is applied to it.
RECURSIVE ClearStoryAll(_, _, _, _)
ClearStoryAll(chapters, selected, progress, i) ==
    IF i > Len(selected)
    THEN [chapters |-> chapters, raised |-> FALSE]
    ELSE LET real == StoryChapters_get_real_chapters(chapters)
             c == IF progress # 0
                  THEN StoryChapters_clear_previous_chapters(chapters, selected[i])
                  ELSE [chapters |-> chapters, raised |-> FALSE]
             pos == real[selected[i] + 1]
             a == Chapter_apply_progress(c.chapters[pos], progress)
         IN  IF selected[i] >= Len(real) THEN [chapters |-> chapters, raised |-> TRUE]
             ELSE IF c.raised THEN c
             ELSE IF a.raised
             THEN [chapters |-> [c.chapters EXCEPT ![pos] = a.chapter], raised |-> TRUE]
             ELSE ClearStoryAll([c.chapters EXCEPT ![pos] = a.chapter], selected,
                                progress, i + 1)

\* clear_story.  selected is what select_story_chapters returned, choice the
\* answer of the individual/all dialog (asked when more than one chapter is
\* selected), answers the answers of the progress dialogs.
StoryChapters_clear_story(chapters, selected, choice, answers) ==
    IF selected = <<>> THEN [chapters |-> chapters, raised |-> FALSE]
    ELSE IF Len(selected) # 1 /\ ~choice.given
    THEN [chapters |-> chapters, raised |-> FALSE]
    ELSE IF Len(selected) = 1 \/ choice.val = 0
    THEN ClearStoryIndividual(chapters, selected, answers, 1)
    ELSE IF ~answers[1].given
    THEN [chapters |-> chapters, raised |-> FALSE]
    ELSE ClearStoryAll(chapters, selected, answers[1].val, 1)

\* for stage in chapter.get_valid_treasure_stages(): stage.set_treasure(level)
SetValidTreasures(ch, level) ==
    [ch EXCEPT !.stages =
        [j \in 1..Len(ch.stages) |->
            IF j - 1 \in Chapter_get_valid_treasure_stages(ch)
            THEN Stage_set_treasure(ch.stages[j], level)
            ELSE ch.stages[j]]]

\* edit_treasures_whole_chapters.  levels[i] is the answer of the i-th
\* ask_treasure_level: [given |-> FALSE] is None, which ends the edit.
RECURSIVE EditWholeChapters(_, _, _, _, _)
EditWholeChapters(chapters, ids, per_chapter, levels, i) ==
    IF i > Len(ids)
    THEN [chapters |-> chapters, raised |-> FALSE]
    ELSE LET real == StoryChapters_get_real_chapters(chapters)
             level == IF per_chapter THEN levels[i] ELSE levels[1]
         IN  IF ids[i] >= Len(real)
             THEN [chapters |-> chapters, raised |-> TRUE]
             ELSE IF ~level.given
             THEN [chapters |-> chapters, raised |-> FALSE]
             ELSE EditWholeChapters(
                      [chapters EXCEPT ![real[ids[i] + 1]] = SetValidTreasures(@, level.val)],
                      ids, per_chapter, levels, i + 1)

\* choice 0 is per chapter (the only mode of a single chapter), 1 is one level
\* for all the selected chapters.
StoryChapters_edit_treasures_whole_chapters(chapters, ids, choice, levels) ==
    IF choice = 0
    THEN EditWholeChapters(chapters, ids, TRUE, levels, 1)
    ELSE IF ~levels[1].given
    THEN [chapters |-> chapters, raised |-> FALSE]
    ELSE EditWholeChapters(chapters, ids, FALSE, levels, 1)

(***************************************************************************)
(* bc_csv.py: class Row and class CSV.  A text is the sequence of its      *)
(* characters, a cell is its text, a row is the sequence of its cells.     *)
(***************************************************************************)
\* The least element of a non-empty set of integers.
Least(S) == CHOOSE i \in S : \A j \in S : i <= j
Greatest(S) == CHOOSE i \in S : \A j \in S : i >= j

\* str.split(sep): the parts between the occurrences of sep, found left to right.
RECURSIVE SplitOn(_, _)
SplitOn(str, sep) ==
    LET n == Len(sep)
        hits == {i \in 1..(Len(str) - n + 1) : SubSeq(str, i, i + n - 1) = sep}
    IN  IF hits = {} THEN <<str>>
        ELSE LET i == Least(hits)
             IN  <<SubSeq(str, 1, i - 1)>> \o SplitOn(SubSeq(str, i + n, Len(str)), sep)

\* sep.join(parts)
RECURSIVE Join(_, _)
Join(parts, sep) ==
    IF parts = <<>> THEN <<>>
    ELSE IF Len(parts) = 1 THEN parts[1]
    ELSE parts[1] \o sep \o Join(Tail(parts), sep)

\* str.splitlines(): lines end at "\n", "\r" or "\r\n"; no line after the last end.
RECURSIVE SplitLines(_)
SplitLines(text) ==
    LET ends == {i \in 1..Len(text) : text[i] \in {"\n", "\r"}}
    IN  IF text = <<>> THEN <<>>
        ELSE IF ends = {} THEN <<text>>
        ELSE LET i == Least(ends)
                 w == IF text[i] = "\r" /\ i < Len(text) /\ text[i + 1] = "\n"
                      THEN 2 ELSE 1
             IN  <<SubSeq(text, 1, i - 1)>> \o SplitLines(SubSeq(text, i + w, Len(text)))

\* str.strip(): without the whitespace at both ends.
Whitespace == {" ", "\t", "\n", "\r"}

Strip(str) ==
    LET keep == {i \in 1..Len(str) : str[i] \notin Whitespace}
    IN  IF keep = {} THEN <<>> ELSE SubSeq(str, Least(keep), Greatest(keep))

\* A row of csv.reader for a line without quote characters: the fields between
\* the delimiters, and no field for an empty line.
ReaderRow(line, delimeter) ==
    IF line = <<>> THEN <<>> ELSE SplitOn(line, <<delimeter>>)

\* list[index]: the position of the element, or 0 for an IndexError.
ListPosition(n, index) ==
    IF index >= 0 /\ index < n THEN index + 1
    ELSE IF index < 0 /\ index >= -n THEN n + index + 1
    ELSE 0

\* Row.__getitem__: Cell(data.Data()) on IndexError
Row_getitem(cells, index) ==
    IF ListPosition(Len(cells), index) = 0 THEN <<>>
    ELSE cells[ListPosition(Len(cells), index)]

\* The body of the loop of CSV.parse for one row of the reader.
CSV_parse_row(reader_row, config) ==
    LET delimeter == <<config.delimeter>>
        joined == Join(reader_row, delimeter)
        full_row == IF config.remove_comments
                    THEN SplitOn(joined, <<"/", "/">>)[1]
                    ELSE joined
        row == SplitOn(full_row, delimeter)
        items == [i \in 1..Len(row) |-> Strip(row[i])]
    IN  SelectSeq(items, LAMBDA item : item # <<>> \/ ~config.remove_empty)

\* parse without item.strip().
ParseWithoutStrip(text, config) ==
    LET lines == SplitLines(text)
        rows == [k \in 1..Len(lines) |->
                    LET full_row == IF config.remove_comments
                                    THEN SplitOn(lines[k], <<"/", "/">>)[1]
                                    ELSE lines[k]
                    IN  SelectSeq(SplitOn(full_row, <<config.delimeter>>),
                                  LAMBDA item : item # <<>> \/ ~config.remove_empty)]
    IN  SelectSeq(rows, LAMBDA new_row : new_row # <<>> \/ ~config.remove_empty)

\* CSV.parse: self.lines
CSV_parse(text, config) ==
    LET lines == SplitLines(text)
        rows == [k \in 1..Len(lines) |->
                    CSV_parse_row(ReaderRow(lines[k], config.delimeter), config)]
    IN  SelectSeq(rows, LAMBDA new_row : new_row # <<>> \/ ~config.remove_empty)

\* The number of a padding byte, 0 for a character that is none.
PadCount(char) ==
    CASE char = "\t" -> 9
      [] char = "\n" -> 10
      [] char = "\r" -> 13
      [] OTHER -> 0

\* Data.unpad_pkcs7 in try/except ValueError: the text without its padding, or
\* the text itself when it is not validly padded.
Unpad(text) ==
    LET n == IF text = <<>> THEN 0 ELSE PadCount(text[Len(text)])
    IN  IF n > 0 /\ n <= Len(text)
           /\ \A i \in (Len(text) - n + 1)..Len(text) : text[i] = text[Len(text)]
        THEN SubSeq(text, 1, Len(text) - n)
        ELSE text

\* CSV.__init__: self.lines after the parse that ends the constructor.
CSV_init(file_data, config, remove_padding) ==
    CSV_parse(IF remove_padding THEN Unpad(file_data) ELSE file_data, config)

\* get_row giving the last row for an index past the end.
GetRowClamped(lines, index) ==
    IF lines = <<>> THEN <<>>
    ELSE IF ListPosition(Len(lines), index) = 0 THEN lines[Len(lines)]
    ELSE lines[ListPosition(Len(lines), index)]

\* CSV.get_row: Row([]) on IndexError
CSV_get_row(lines, index) ==
    IF ListPosition(Len(lines), index) = 0 THEN <<>>
    ELSE lines[ListPosition(Len(lines), index)]

\* Cell.__str__ is Cell.__repr__: f"Cell({self.data})"
Cell_str(cell) == <<"C", "e", "l", "l", "(">> \o cell \o <<")">>

\* CSV.to_data: str(item) of every cell, the delimeter between the cells of a
\* line, "\r\n" after every line.
CSV_to_data(lines, config) ==
    Join([k \in 1..Len(lines) |->
            Join([i \in 1..Len(lines[k]) |-> Cell_str(lines[k][i])], <<config.delimeter>>)
            \o <<"\r", "\n">>],
         <<>>)

\* read_line moving the cursor also when it returns None.
ReadLineMovingAtEnd(lines, index) ==
    IF index >= Len(lines)
    THEN [none |-> TRUE, row |-> <<>>, index |-> Len(lines) + 1]
    ELSE [none |-> FALSE, row |-> lines[index + 1], index |-> index + 1]

\* CSV.read_line: the row at the cursor and the cursor after it, or None.
CSV_read_line(lines, index) ==
    IF index >= Len(lines)
    THEN [none |-> TRUE, row |-> <<>>, index |-> index]
    ELSE [none |-> FALSE, row |-> lines[index + 1], index |-> index + 1]

CSV_has_line(lines, index) == index < Len(lines)

\* __iter__: return self; the cursor is the one the object has.
CSV_iter(lines, index) == index

\* __next__: line = self.read_line(); StopIteration when it is None.
CSV_next(lines, index) ==
    LET r == CSV_read_line(lines, index)
    IN  [stop |-> r.none, row |-> r.row, index |-> r.index]

\* add_line: self.lines.append(Row.from_list(new_line)); an argument that is
\* not a list is the list of that one item.
CSV_add_line(lines, line) == Append(lines, line)

\* set_line that leaves the table alone on an IndexError.
SetLineWithoutAppend(lines, index, line) ==
    IF ListPosition(Len(lines), index) = 0
    THEN lines
    ELSE [lines EXCEPT ![ListPosition(Len(lines), index)] = line]

\* set_line: self.lines[index] = row, and on an IndexError
\* self.lines.append(row).
CSV_set_line(lines, index, line) ==
    IF ListPosition(Len(lines), index) = 0
    THEN Append(lines, line)
    ELSE [lines EXCEPT ![ListPosition(Len(lines), index)] = line]

(***************************************************************************)
(* Inputs: the integer streams and structured forms the model decodes.     *)
(***************************************************************************)
Seeds == 0..MaxSeed

\* One chapter decoded with the four reads of the save format, in their order.
DecodeChapter(s) ==
    LET r1 == Chapter_read_selected_stage(s)
        r2 == Chapter_read_progress(r1.chapter, r1.stream)
        r3 == Chapter_read_clear_times(r2.chapter, r2.stream)
        r4 == Chapter_read_treasure(r3.chapter, r3.stream)
    IN  r4.chapter

ChapterInts(seed) == NewStream("gen", seed, 2 + total_stages + treasure_stages)

\* Structured forms (parsed JSON) of a chapter: complete ones, one without the
\* "stages" key, and ones whose "stages" list is short.
ShortStageCounts == (0..MaxValue) \cup {max_stages - 1, max_stages}

ChapterDatas ==
    {Chapter_serialize(DecodeChapter(ChapterInts(seed))) : seed \in Seeds}
    \cup {[selected_stage |-> 1, progress |-> 3]}
    \cup {[progress |-> n,
           stages |-> [i \in 1..n |-> [clear_times |-> i % 2]]] : n \in ShortStageCounts}

StageIds == 0..(total_stages - 1)
\* The stages set_treasure is called with: both ends of the valid treasure
\* stages and every stage after them.
TreasureStageIds == {0, max_stages - 1} \cup (max_stages..(total_stages - 1))
ProgressInputs == 0..max_stages
TreasureLevels == 1..MaxValue
\* The progress values a save of the game holds.
StreamInts == {0, max_stages}

(***************************************************************************)
(* SpecChapter: one Chapter object and the methods called on it.           *)
(***************************************************************************)
Call(op, a, b, increase, overwrite, raised) ==
    [op |-> op, a |-> a, b |-> b, increase |-> increase,
     overwrite |-> overwrite, raised |-> raised]

NoCall == Call("none", 0, 0, FALSE, FALSE, FALSE)

ChapterIdle == chapter = Chapter_init /\ chLast = NoCall /\ chOps = 0

StoryIdle ==
    /\ story = <<>>
    /\ stream = NewStream("const", 0, 0)
    /\ output = <<>>
    /\ origin = "none"
    /\ stLast = Call("none", 0, 0, FALSE, FALSE, FALSE)
    /\ stOps = 0

ConvertIdle == cvIndex = 0 /\ cvOut = <<>>

CsvCall(op, a, b, row, cell, none, flag) ==
    [op |-> op, a |-> a, b |-> b, row |-> row, cell |-> cell, none |-> none, flag |-> flag]

NoCsvCall == CsvCall("none", 0, 0, <<>>, <<>>, FALSE, FALSE)

CsvIdle ==
    /\ csvData = <<>>
    /\ csvConfig = [delimeter |-> ",", remove_comments |-> TRUE, remove_empty |-> TRUE]
    /\ csvLines = <<>>
    /\ csvIndex = 0
    /\ csvLast = NoCsvCall
    /\ csvSaves = 0

StageIdle ==
    /\ sgStage = Stage_init
    /\ sgLast = [op |-> "none", increase |-> FALSE, flag |-> FALSE]
    /\ sgOps = 0

IterIdle ==
    /\ itLoop = "none"
    /\ itYield = <<>>

RunManyIdle ==
    /\ rmIn = [funcs |-> <<>>, args |-> [given |-> FALSE, val |-> <<>>], max_threads |-> 1]
    /\ rmMain = [pc |-> "idle", joined |-> 0]
    /\ rmChunks = <<>>
    /\ rmThreads = <<>>
    /\ rmCalls = <<>>

ColorIdle ==
    /\ ctIn = <<>>
    /\ ctOut = <<>>
    /\ ctDone = FALSE

ChaptersIdle ==
    /\ kcChapters = <<>>
    /\ kcFlag = TRUE
    /\ kcOut = <<>>
    /\ kcBack = <<>>
    /\ kcLast = [op |-> "none", raised |-> FALSE, pos |-> 0]

TradeIdle ==
    /\ tpStats = [trade_progress |-> [Value |-> 0], cat_storage |-> [ids |-> <<>>, types |-> <<>>],
                  rare_tickets |-> [Value |-> 0]]
    /\ tpLast = [op |-> "none", tickets |-> 0, space |-> FALSE]
    /\ tpOps = 0

\* The variables of the other specifications keep their idle values.
IdleBut(spec) ==
    /\ IF spec = "chapter" THEN TRUE ELSE ChapterIdle
    /\ IF spec = "story" THEN TRUE ELSE StoryIdle
    /\ IF spec = "convert" THEN TRUE ELSE ConvertIdle
    /\ IF spec = "csv" THEN TRUE ELSE CsvIdle
    /\ IF spec = "stage" THEN TRUE ELSE StageIdle
    /\ IF spec = "iter" THEN TRUE ELSE IterIdle
    /\ IF spec = "run_many" THEN TRUE ELSE RunManyIdle
    /\ IF spec = "color" THEN TRUE ELSE ColorIdle
    /\ IF spec = "chapters" THEN TRUE ELSE ChaptersIdle
    /\ IF spec = "trade" THEN TRUE ELSE TradeIdle

\* A chapter as it is made: constructed, decoded from a stream, or deserialized.
InitChapter ==
    /\ \/ chapter = Chapter_init /\ chLast = Call("init", 0, 0, FALSE, FALSE, FALSE)
       \/ \E seed \in Seeds :
            /\ chapter = DecodeChapter(ChapterInts(seed))
            /\ chLast = Call("read", seed, 0, FALSE, FALSE, FALSE)
       \/ \E d \in ChapterDatas :
            /\ chapter = Chapter_deserialize(d)
            /\ chLast = Call("deserialize", Len(DictGet(d, "stages", <<>>)), 0,
                             FALSE, FALSE, FALSE)
    /\ chOps = 0
    /\ IdleBut("chapter")

ChapterCall(r, call) ==
    /\ chOps < MaxChapterOps
    /\ chapter' = r.chapter
    /\ chLast' = call
    /\ chOps' = chOps + 1
    /\ UNCHANGED chOthers

CallClearStage ==
    \E stage_id \in StageIds, increase \in BOOLEAN, overwrite \in BOOLEAN :
        LET r == Chapter_clear_stage(chapter, stage_id, increase, overwrite)
        IN  ChapterCall(r, Call("clear_stage", stage_id, 0, increase, overwrite, r.raised))

CallSetTreasure ==
    \E stage_id \in TreasureStageIds, treasure \in TreasureLevels :
        LET r == Chapter_set_treasure(chapter, stage_id, treasure)
        IN  ChapterCall(r, Call("set_treasure", stage_id, treasure, FALSE, FALSE, r.raised))

CallApplyProgress ==
    \E progress \in ProgressInputs :
        LET r == Chapter_apply_progress(chapter, progress)
        IN  ChapterCall(r, Call("apply_progress", progress, 0, FALSE, FALSE, r.raised))

CallClearChapter ==
    LET r == Chapter_clear_chapter(chapter)
    IN  ChapterCall(r, Call("clear_chapter", 0, 0, FALSE, FALSE, r.raised))

CallReadProgress ==
    \E v \in StreamInts :
        LET r == Chapter_read_progress(chapter, NewStream("const", v, 1))
        IN  ChapterCall(r, Call("read_progress", v, 0, FALSE, FALSE, FALSE))

CallReadClearTimes ==
    \E seed \in Seeds :
        LET r == Chapter_read_clear_times(chapter, NewStream("gen", seed, total_stages))
        IN  ChapterCall(r, Call("read_clear_times", seed, 0, FALSE, FALSE, FALSE))

CallReadTreasure ==
    \E seed \in Seeds :
        LET r == Chapter_read_treasure(chapter, NewStream("gen", seed, treasure_stages))
        IN  ChapterCall(r, Call("read_treasure", seed, 0, FALSE, FALSE, FALSE))

CallDeserialize ==
    \E d \in ChapterDatas :
        ChapterCall([chapter |-> Chapter_deserialize(d)],
                    Call("deserialize", Len(DictGet(d, "stages", <<>>)), 0,
                         FALSE, FALSE, FALSE))

NextChapter ==
    \/ CallClearStage
    \/ CallSetTreasure
    \/ CallApplyProgress
    \/ CallClearChapter
    \/ CallReadProgress
    \/ CallReadClearTimes
    \/ CallReadTreasure
    \/ CallDeserialize

SpecChapter == InitChapter /\ [][NextChapter]_vars

(***************************************************************************)
(* SpecStory: one StoryChapters container: made by init, read or           *)
(* deserialize, edited, and written.                                       *)
(***************************************************************************)
StoryInts ==
    2 * total_chapters + total_chapters * total_stages + total_chapters * treasure_stages

StoryStreams ==
    {NewStream("gen", seed, StoryInts) : seed \in Seeds}
    \cup {NewStream("ramp", 0, StoryInts)}

\* No binary save: the container comes from JSON.
NoStream == NewStream("const", 0, 0)

\* Structured forms (parsed JSON) of a container: what serialize produces, lists
\* with other numbers of chapters (the empty list among them), and ten chapters
\* without a "stages" key.
ChapterCounts ==
    {0, skipped_chapter, skipped_chapter + 1, total_chapters - 1, total_chapters + 1}

StoryDatas ==
    {StoryChapters_serialize(StoryChapters_read(s).chapters) : s \in StoryStreams}
    \cup {[i \in 1..n |-> Chapter_serialize(Chapter(i))] : n \in ChapterCounts}
    \cup {[i \in 1..total_chapters |-> [selected_stage |-> i, progress |-> i]]}

RealChapterIds == 0..(total_chapters - 2)
EdgeChapterIds == {0, skipped_chapter, total_chapters - 1}
EdgeStageIds == {0, max_stages - 1, max_stages, total_stages - 1}

\* The answers of ask_treasure_level: a level, or None.
NoLevel == [given |-> FALSE, val |-> 0]
LevelAnswers == {NoLevel} \cup {[given |-> TRUE, val |-> MaxValue]}

\* The chapters the user selected: one real chapter, or the two real chapters
\* around the skipped container slot.
SelectedChapters ==
    {<<r>> : r \in {0, skipped_chapter, total_chapters - 2}}
    \cup {<<skipped_chapter - 1, skipped_chapter>>}

StCall(op, a, b, c, ids, raised) ==
    [op |-> op, a |-> a, b |-> b, c |-> c, ids |-> ids, raised |-> raised]

NoStCall == StCall("none", 0, 0, 0, <<>>, FALSE)

InitStory ==
    /\ stream \in StoryStreams \cup {NoStream}
    /\ story = StoryChapters_init
    /\ output = <<>>
    /\ origin = "init"
    /\ stLast = NoStCall
    /\ stOps = 0
    /\ IdleBut("story")

\* StoryChapters.read(stream): a failed read returns no container.
StRead ==
    /\ origin = "init" /\ stOps = 0 /\ stream # NoStream
    /\ LET r == StoryChapters_read(stream)
       IN  /\ story' = IF r.raised THEN story ELSE r.chapters
           /\ stream' = r.stream
           /\ origin' = IF r.raised THEN "failed" ELSE "read"
           /\ stLast' = StCall("read", 0, 0, 0, <<>>, r.raised)
    /\ UNCHANGED <<output, stOps, stOthers>>

\* StoryChapters.deserialize(data), for a save that comes as JSON.
StDeserialize ==
    /\ origin = "init" /\ stOps = 0 /\ stream = NoStream
    /\ \E data \in StoryDatas :
        /\ story' = StoryChapters_deserialize(data)
        /\ origin' = "deserialize"
        /\ stLast' = StCall("deserialize", Len(data), 0, 0, <<>>, FALSE)
    /\ UNCHANGED <<stream, output, stOps, stOthers>>

StoryEdit(r, call) ==
    /\ origin # "failed"
    /\ stLast.op # "write"
    /\ stOps < MaxStoryOps
    /\ story' = r.chapters
    /\ stLast' = call
    /\ stOps' = stOps + 1
    /\ UNCHANGED <<stream, output, origin, stOthers>>

StSetTreasure ==
    \E chapter_id \in EdgeChapterIds, stage \in EdgeStageIds, treasure \in {MaxValue} :
        LET r == StoryChapters_set_treasure(story, chapter_id, stage, treasure)
        IN  StoryEdit(r, StCall("set_treasure", chapter_id, stage, treasure, <<>>, r.raised))

StEditStageClearCount ==
    \E chapter_id \in RealChapterIds, stage_id \in {0}, clear_count \in {MaxValue + 1} :
        LET r == StoryChapters_edit_stage_clear_count(story, chapter_id, stage_id, clear_count)
        IN  StoryEdit(r, StCall("edit_stage_clear_count", chapter_id, stage_id, clear_count,
                                <<>>, r.raised))

StClearPreviousChapters ==
    \E chapter_id \in RealChapterIds :
        LET r == StoryChapters_clear_previous_chapters(story, chapter_id)
        IN  StoryEdit(r, StCall("clear_previous_chapters", chapter_id, 0, 0, <<>>, r.raised))

StEditTreasuresWholeChapters ==
    \E ids \in SelectedChapters :
        \E choice \in (IF Len(ids) = 1 THEN {0} ELSE {0, 1}) :
            \E levels \in [1..(IF choice = 0 THEN Len(ids) ELSE 1) -> LevelAnswers] :
                LET r == StoryChapters_edit_treasures_whole_chapters(story, ids, choice, levels)
                IN  StoryEdit(r, StCall("edit_treasures_whole_chapters", choice, 0, 0,
                                        ids, r.raised))

\* StoryChapters.write(stream) into an empty output stream; the save ends the session.
StWrite ==
    /\ origin # "failed"
    /\ stLast.op # "write"
    /\ stOps < MaxStoryOps
    /\ output' = StoryChapters_write(story, <<>>)
    /\ stLast' = StCall("write", 0, 0, 0, <<>>, FALSE)
    /\ stOps' = stOps + 1
    /\ UNCHANGED <<story, stream, origin, stOthers>>

NextStory ==
    \/ StRead
    \/ StDeserialize
    \/ StSetTreasure
    \/ StEditStageClearCount
    \/ StClearPreviousChapters
    \/ StEditTreasuresWholeChapters
    \/ StWrite

SpecStory == InitStory /\ [][NextStory]_vars

(***************************************************************************)
(* SpecLoad: the load of a save: StoryChapters.read(stream), then the      *)
(* passes that read further fields into the container read, from streams   *)
(* that end at different points of the load.                               *)
(***************************************************************************)
FestivalInts == Len(FestivalFields) * total_chapters
ItfInts == 3 * total_stages

\* Where a stream ends: inside read, right after read, inside and right after
\* the timed-event scalars, inside and after the timed scores that follow them,
\* and inside and after timed scores that follow read directly.
StreamEnds ==
    {0, total_chapters - 1, StoryInts - 1, StoryInts,
     StoryInts + total_chapters + 2, StoryInts + FestivalInts,
     StoryInts + FestivalInts + total_stages + 1, StoryInts + FestivalInts + ItfInts,
     StoryInts + ItfInts}

LoadStreams ==
    {NewStream("gen", seed, len) : seed \in Seeds, len \in StreamEnds}
    \cup {NewStream("ramp", 0, len) : len \in StreamEnds}

InitLoad ==
    /\ stream \in LoadStreams
    /\ story = StoryChapters_init
    /\ output = <<>>
    /\ origin = "init"
    /\ stLast = NoStCall
    /\ stOps = 0
    /\ IdleBut("story")

\* StoryChapters.read(stream): a failed read returns no container.
LdRead ==
    /\ origin = "init"
    /\ LET r == StoryChapters_read(stream)
       IN  /\ story' = IF r.raised THEN story ELSE r.chapters
           /\ stream' = r.stream
           /\ origin' = IF r.raised THEN "failed" ELSE "read"
           /\ stLast' = StCall("read", 0, 0, 0, <<>>, r.raised)
    /\ UNCHANGED <<output, stOps, stOthers>>

\* A pass that reads into the container; a pass that raised ends the load.
LoadPass(r, call) ==
    /\ origin = "read"
    /\ ~stLast.raised
    /\ stOps < MaxLoadPasses
    /\ story' = r.chapters
    /\ stream' = r.stream
    /\ stLast' = call
    /\ stOps' = stOps + 1
    /\ UNCHANGED <<output, origin, stOthers>>

LdReadTreasureFestival ==
    LET r == StoryChapters_read_treasure_festival(story, stream)
    IN  LoadPass(r, StCall("read_treasure_festival", 0, 0, 0, <<>>, r.raised))

LdReadItfTimedScores ==
    LET r == StoryChapters_read_itf_timed_scores(story, stream)
    IN  LoadPass(r, StCall("read_itf_timed_scores", 0, 0, 0, <<>>, r.raised))

\* The container is saved as JSON and loaded back:
\* StoryChapters.deserialize(self.serialize()).
LdSerializeDeserialize ==
    /\ origin = "read"
    /\ stLast.op # "serialize_deserialize"
    /\ story' = StoryChapters_deserialize(StoryChapters_serialize(story))
    /\ stLast' = StCall("serialize_deserialize", 0, 0, 0, <<>>, FALSE)
    /\ UNCHANGED <<stream, output, origin, stOps, stOthers>>

\* The save: write_itf_timed_scores on a new stream.
LdWriteItfTimedScores ==
    /\ origin = "read"
    /\ ~stLast.raised
    /\ stLast.op \notin {"write_itf_timed_scores", "reload_itf_timed_scores"}
    /\ output' = StoryChapters_write_itf_timed_scores(story, <<>>)
    /\ stLast' = StCall("write_itf_timed_scores", 0, 0, 0, <<>>, FALSE)
    /\ UNCHANGED <<story, stream, origin, stOps, stOthers>>

\* The load of what was just saved: read_itf_timed_scores on the stream written.
LdReloadItfTimedScores ==
    /\ stLast.op = "write_itf_timed_scores"
    /\ LET r == StoryChapters_read_itf_timed_scores(story, DataStream(output))
       IN  /\ story' = r.chapters
           /\ stream' = r.stream
           /\ stLast' = StCall("reload_itf_timed_scores", 0, 0, 0, <<>>, r.raised)
    /\ UNCHANGED <<output, origin, stOps, stOthers>>

NextLoad ==
    \/ LdRead
    \/ LdReadTreasureFestival
    \/ LdReadItfTimedScores
    \/ LdSerializeDeserialize
    \/ LdWriteItfTimedScores
    \/ LdReloadItfTimedScores

SpecLoad == InitLoad /\ [][NextLoad]_vars

(***************************************************************************)
(* SpecCsv: one CSV object made from a text, read by cursor and by index,  *)
(* and written out with to_data and parsed again.                          *)
(***************************************************************************)
Chars == {"a", " ", ",", "/", "\n"}

\* The text of the parse example: a,b//comment and ,c, on two lines.
ExampleText ==
    <<"a", ",", "b", "/", "/", "c", "o", "m", "m", "e", "n", "t", "\n", ",", "c", ",", "\n">>

Texts == UNION {[1..n -> Chars] : n \in 0..MaxTextLen} \cup {ExampleText}

Configs ==
    [delimeter : {","}, remove_comments : BOOLEAN, remove_empty : BOOLEAN]

Indexes == -1..MaxIndex

InitCsv ==
    /\ csvData \in Texts
    /\ csvConfig \in Configs
    /\ csvLines = CSV_init(csvData, csvConfig, TRUE)
    /\ csvIndex = 0
    /\ csvLast = NoCsvCall
    /\ csvSaves = 0
    /\ IdleBut("csv")

CsvReadLine ==
    /\ LET r == CSV_read_line(csvLines, csvIndex)
       IN  /\ csvIndex' = r.index
           /\ csvLast' = CsvCall("read_line", csvIndex, 0, r.row, <<>>, r.none, FALSE)
    /\ UNCHANGED <<csvData, csvConfig, csvLines, csvSaves, csvOthers>>

CsvResetIndex ==
    /\ csvIndex' = 0
    /\ csvLast' = CsvCall("reset_index", csvIndex, 0, <<>>, <<>>, FALSE, FALSE)
    /\ UNCHANGED <<csvData, csvConfig, csvLines, csvSaves, csvOthers>>

CsvHasLine ==
    /\ csvLast' = CsvCall("has_line", csvIndex, 0, <<>>, <<>>, FALSE,
                          CSV_has_line(csvLines, csvIndex))
    /\ UNCHANGED <<csvData, csvConfig, csvLines, csvIndex, csvSaves, csvOthers>>

CsvGetRow ==
    /\ \E index \in Indexes :
        csvLast' = CsvCall("get_row", index, 0, CSV_get_row(csvLines, index), <<>>,
                           FALSE, FALSE)
    /\ UNCHANGED <<csvData, csvConfig, csvLines, csvIndex, csvSaves, csvOthers>>

\* row[index], for the row the last read_line or get_row returned.
CsvRowGetItem ==
    /\ csvLast.op \in {"read_line", "get_row"} /\ ~csvLast.none
    /\ \E index \in Indexes :
        csvLast' = CsvCall("getitem", csvLast.a, index, csvLast.row,
                           Row_getitem(csvLast.row, index), FALSE, FALSE)
    /\ UNCHANGED <<csvData, csvConfig, csvLines, csvIndex, csvSaves, csvOthers>>

\* CSV(self.to_data(), ...): the table is written out and a CSV object of the
\* same configuration is made from what was written.
CsvSave ==
    /\ csvSaves < MaxSaves
    /\ csvData' = CSV_to_data(csvLines, csvConfig)
    /\ csvLines' = CSV_init(csvData', csvConfig, TRUE)
    /\ csvIndex' = 0
    /\ csvLast' = CsvCall("to_data", 0, 0, <<>>, <<>>, FALSE, FALSE)
    /\ csvSaves' = csvSaves + 1
    /\ UNCHANGED <<csvConfig, csvOthers>>

NextCsv ==
    \/ CsvReadLine
    \/ CsvResetIndex
    \/ CsvHasLine
    \/ CsvGetRow
    \/ CsvRowGetItem
    \/ CsvSave

SpecCsv == InitCsv /\ [][NextCsv]_vars

(***************************************************************************)
(* SpecCsvEdit: a CSV object whose rows are replaced and appended with     *)
(* set_line and add_line, between reads by cursor.                         *)
(***************************************************************************)
EditTexts ==
    {<<>>, <<"a">>, <<"a", ",", "a", "\n", "a">>, ExampleText}

\* The line argument: lists of cell texts.
NewLines == {<<>>, <<<<"b">>>>, <<<<"b">>, <<>>>>}

InitCsvEdit ==
    /\ csvData \in EditTexts
    /\ csvConfig = [delimeter |-> ",", remove_comments |-> TRUE, remove_empty |-> TRUE]
    /\ csvLines = CSV_init(csvData, csvConfig, TRUE)
    /\ csvIndex = 0
    /\ csvLast = NoCsvCall
    /\ csvSaves = 0
    /\ IdleBut("csv")

CeReadLine ==
    /\ csvIndex < Len(csvLines)
    /\ LET r == CSV_read_line(csvLines, csvIndex)
       IN  /\ csvIndex' = r.index
           /\ csvLast' = CsvCall("read_line", csvIndex, 0, r.row, <<>>, r.none, FALSE)
    /\ UNCHANGED <<csvData, csvConfig, csvLines, csvSaves, csvOthers>>

\* set_line(index, line); it returns self.index < len(self.lines).
CeSetLine ==
    /\ csvSaves < MaxCsvEdits
    /\ \E index \in Indexes \cup {MaxIndex + 2} : \E line \in NewLines :
        /\ csvLines' = CSV_set_line(csvLines, index, line)
        /\ csvLast' = CsvCall("set_line", index, 0, line, <<>>, FALSE,
                              csvIndex < Len(csvLines'))
    /\ csvSaves' = csvSaves + 1
    /\ UNCHANGED <<csvData, csvConfig, csvIndex, csvOthers>>

CeAddLine ==
    /\ csvSaves < MaxCsvEdits
    /\ \E line \in NewLines :
        /\ csvLines' = CSV_add_line(csvLines, line)
        /\ csvLast' = CsvCall("add_line", 0, 0, line, <<>>, FALSE, FALSE)
    /\ csvSaves' = csvSaves + 1
    /\ UNCHANGED <<csvData, csvConfig, csvIndex, csvOthers>>

NextCsvEdit ==
    \/ CeReadLine
    \/ CeSetLine
    \/ CeAddLine

SpecCsvEdit == InitCsvEdit /\ [][NextCsvEdit]_vars

(***************************************************************************)
(* SpecCsvIter: for loops over one CSV object (for row in csv), complete   *)
(* or left early, with read_line and reset_index called between them.      *)
(***************************************************************************)
IterTexts ==
    EditTexts \cup {<<"a", "\n", " ", "a", ",", "\n", ",", "a">>}

InitCsvIter ==
    /\ csvData \in IterTexts
    /\ csvConfig = [delimeter |-> ",", remove_comments |-> TRUE, remove_empty |-> TRUE]
    /\ csvLines = CSV_init(csvData, csvConfig, TRUE)
    /\ csvIndex = 0
    /\ csvLast = NoCsvCall
    /\ csvSaves = 0
    /\ IdleBut("csv")

\* read_line() outside a loop.
CiReadLine ==
    /\ itLoop # "running"
    /\ csvIndex < Len(csvLines)
    /\ LET r == CSV_read_line(csvLines, csvIndex)
       IN  /\ csvIndex' = r.index
           /\ csvLast' = CsvCall("read_line", csvIndex, 0, r.row, <<>>, r.none, FALSE)
    /\ UNCHANGED <<csvData, csvConfig, csvLines, csvSaves, itVars, ciOthers>>

CiResetIndex ==
    /\ itLoop # "running"
    /\ csvIndex # 0
    /\ csvIndex' = 0
    /\ csvLast' = CsvCall("reset_index", csvIndex, 0, <<>>, <<>>, FALSE, FALSE)
    /\ UNCHANGED <<csvData, csvConfig, csvLines, csvSaves, itVars, ciOthers>>

\* for row in csv: the loop calls iter(csv) once.
CiIter ==
    /\ itLoop # "running"
    /\ csvSaves < MaxLoops
    /\ csvIndex' = CSV_iter(csvLines, csvIndex)
    /\ csvLast' = CsvCall("iter", csvIndex, 0, <<>>, <<>>, FALSE, FALSE)
    /\ itLoop' = "running"
    /\ itYield' = <<>>
    /\ csvSaves' = csvSaves + 1
    /\ UNCHANGED <<csvData, csvConfig, csvLines, ciOthers>>

\* The loop calls next(csv): it gets a row for its body, or StopIteration ends it.
CiNext ==
    /\ itLoop = "running"
    /\ LET r == CSV_next(csvLines, csvIndex)
       IN  /\ csvIndex' = r.index
           /\ csvLast' = CsvCall("next", csvIndex, 0, r.row, <<>>, r.stop, FALSE)
           /\ itLoop' = IF r.stop THEN "done" ELSE "running"
           /\ itYield' = IF r.stop THEN itYield ELSE Append(itYield, r.row)
    /\ UNCHANGED <<csvData, csvConfig, csvLines, csvSaves, ciOthers>>

\* The body of the loop leaves it (break, return).
CiBreak ==
    /\ itLoop = "running"
    /\ itLoop' = "none"
    /\ csvLast' = CsvCall("break", csvIndex, 0, <<>>, <<>>, FALSE, FALSE)
    /\ UNCHANGED <<csvData, csvConfig, csvLines, csvIndex, csvSaves, itYield, ciOthers>>

NextCsvIter ==
    \/ CiReadLine
    \/ CiResetIndex
    \/ CiIter
    \/ CiNext
    \/ CiBreak

SpecCsvIter == InitCsvIter /\ [][NextCsvIter]_vars

(***************************************************************************)
(* thread_helper.run_many.  The functions are 1..n; a list slice           *)
(* list[lo:hi] is Slice; a thread is the arguments it was started with and *)
(* the index i of the loop of run_many_helper it has come to.              *)
(***************************************************************************)
\* list[lo:hi] for 0 <= lo <= hi, cut at the end of the list
Slice(list, lo, hi) ==
    [k \in 1..(Min(hi, Len(list)) - Min(lo, Len(list))) |-> list[lo + k]]

\* chunk_size = len(funcs) // max_threads; if chunk_size == 0: chunk_size = 1
ChunkSize(funcs, max_threads) ==
    IF Len(funcs) \div max_threads = 0 THEN 1 ELSE Len(funcs) \div max_threads

\* range(0, len(funcs), chunk_size), as the sequence of its values
ChunkStarts(funcs, chunk_size) ==
    [k \in 1..((Len(funcs) + chunk_size - 1) \div chunk_size) |-> (k - 1) * chunk_size]

\* The loop that fills callable_chunks and args_chunks.  args[i : i + chunk_size]
\* with args None is a TypeError, raised in the first iteration.
RunManyChunks(funcs, args, max_threads) ==
    LET chunk_size == ChunkSize(funcs, max_threads)
        starts == ChunkStarts(funcs, chunk_size)
    IN  IF starts # <<>> /\ ~args.given
        THEN [raised |-> TRUE, chunks |-> <<>>]
        ELSE [raised |-> FALSE,
              chunks |-> [k \in 1..Len(starts) |->
                            [funcs |-> Slice(funcs, starts[k], starts[k] + chunk_size),
                             args |-> Slice(args.val, starts[k], starts[k] + chunk_size)]]]

\* The thread that run_many starts for chunk i:
\* Thread.run("run_many_helper", run_many_helper, (callable_chunks[i], *args_))
RunManyThread(chunk, args) ==
    [funcs |-> chunk.funcs,
     args |-> IF args.given THEN chunk.args ELSE <<>>,
     i |-> 0]

\* The body of the loop of run_many_helper with the arguments of another
\* function of the chunk.
HelperCallFirstArgs(thread) ==
    IF thread.i >= Len(thread.args)
    THEN [raised |-> TRUE, func |-> 0, args |-> <<>>]
    ELSE [raised |-> FALSE, func |-> thread.funcs[thread.i + 1], args |-> thread.args[1]]

\* The body of the loop of run_many_helper: args_ = args[i]; funcs[i](*args_).
\* args[i] past the end of the tuple is an IndexError.
run_many_helper(thread) ==
    IF thread.i >= Len(thread.args)
    THEN [raised |-> TRUE, func |-> 0, args |-> <<>>]
    ELSE [raised |-> FALSE, func |-> thread.funcs[thread.i + 1],
          args |-> thread.args[thread.i + 1]]

\* A thread is alive until its loop is over or an exception has ended it.
ThreadDone(thread) == thread.i >= Len(thread.funcs)

(***************************************************************************)
(* SpecRunMany: one call of run_many and the threads it starts, which run  *)
(* interleaved with each other and with the caller.                        *)
(***************************************************************************)
\* The argument list of function f: different for different functions.
ArgsOf(f) == <<10 * f>>

RunManyInputs ==
    {[funcs |-> [f \in 1..n |-> f],
      args |-> [given |-> g, val |-> IF g THEN [f \in 1..n |-> ArgsOf(f)] ELSE <<>>],
      max_threads |-> m] : n \in 0..MaxFuncs, g \in BOOLEAN, m \in 1..MaxThreads}

InitRunMany ==
    /\ rmIn \in RunManyInputs
    /\ rmMain = [pc |-> "chunk", joined |-> 0]
    /\ rmChunks = <<>>
    /\ rmThreads = <<>>
    /\ rmCalls = [f \in 1..Len(rmIn.funcs) |-> <<>>]
    /\ IdleBut("run_many")

\* run_many, lines 43 to 50.
RmChunk ==
    /\ rmMain.pc = "chunk"
    /\ LET r == RunManyChunks(rmIn.funcs, rmIn.args, rmIn.max_threads)
       IN  /\ rmChunks' = r.chunks
           /\ rmMain' = [rmMain EXCEPT !.pc = IF r.raised THEN "raised" ELSE "start"]
    /\ UNCHANGED <<rmIn, rmThreads, rmCalls, rmOthers>>

\* One iteration of the loop that starts the threads.
RmStart ==
    /\ rmMain.pc = "start"
    /\ Len(rmThreads) < Len(rmChunks)
    /\ rmThreads' = Append(rmThreads,
                           RunManyThread(rmChunks[Len(rmThreads) + 1], rmIn.args))
    /\ UNCHANGED <<rmIn, rmMain, rmChunks, rmCalls, rmOthers>>

\* The loop that starts the threads is over.
RmStarted ==
    /\ rmMain.pc = "start"
    /\ Len(rmThreads) = Len(rmChunks)
    /\ rmMain' = [rmMain EXCEPT !.pc = "join"]
    /\ UNCHANGED <<rmIn, rmChunks, rmThreads, rmCalls, rmOthers>>

\* A started thread runs one iteration of run_many_helper: it invokes a
\* function, or an exception ends it.
RmWorker ==
    \E t \in 1..Len(rmThreads) :
        /\ ~ThreadDone(rmThreads[t])
        /\ LET r == run_many_helper(rmThreads[t])
           IN  IF r.raised
               THEN /\ rmThreads' = [rmThreads EXCEPT ![t].i = Len(@.funcs)]
                    /\ UNCHANGED rmCalls
               ELSE /\ rmThreads' = [rmThreads EXCEPT ![t].i = @ + 1]
                    /\ rmCalls' = [rmCalls EXCEPT ![r.func] = Append(@, r.args)]
        /\ UNCHANGED <<rmIn, rmMain, rmChunks, rmOthers>>

\* thread.join() for the next thread of the list returns when it has ended.
RmJoin ==
    /\ rmMain.pc = "join"
    /\ rmMain.joined < Len(rmThreads)
    /\ ThreadDone(rmThreads[rmMain.joined + 1])
    /\ rmMain' = [rmMain EXCEPT !.joined = @ + 1]
    /\ UNCHANGED <<rmIn, rmChunks, rmThreads, rmCalls, rmOthers>>

\* return threads
RmReturn ==
    /\ rmMain.pc = "join"
    /\ rmMain.joined = Len(rmThreads)
    /\ rmMain' = [rmMain EXCEPT !.pc = "returned"]
    /\ UNCHANGED <<rmIn, rmChunks, rmThreads, rmCalls, rmOthers>>

NextRunMany ==
    \/ RmChunk
    \/ RmStart
    \/ RmStarted
    \/ RmWorker
    \/ RmJoin
    \/ RmReturn

SpecRunMany == InitRunMany /\ [][NextRunMany]_vars

(***************************************************************************)
(* cli.color: ColorHelper.get_color and ColoredText.parse.  A string is    *)
(* the sequence of its characters.                                         *)
(***************************************************************************)
\* theme_handler.get_primary_color(): the colour of the theme in use.
PrimaryColor == "@primary"

\* ColorHex.from_name for the names used: getattr(ColorHex, name.upper()),
\* an AttributeError giving "" in get_color.
ColorHex_from_name(name) ==
    CASE name \in {<<"r">>, <<"r", "e", "d">>} -> "#FF0000"
      [] name \in {<<"w">>, <<"w", "h", "i", "t", "e">>} -> "#FFFFFF"
      [] OTHER -> ""

\* get_color, for the empty name, the "@p" name and the names of ColorHex.
ColorHelper_get_color(color_name) ==
    IF color_name = <<>> THEN ""
    ELSE IF color_name[1] = "@"
    THEN (IF Len(color_name) >= 2 /\ color_name[2] = "p" THEN PrimaryColor ELSE "")
    ELSE ColorHex_from_name(color_name)

special_chars == {"<", ">", "/"}

\* The variables of parse before its loop.
ParseStart ==
    [i |-> 0, tags |-> <<>>, inside_tag |-> FALSE, in_closing_tag |-> FALSE,
     tag_text |-> <<>>, text |-> <<>>, output |-> <<>>]

\* One iteration of the loop of parse that takes the colour of a piece of
\* text from the tag just read instead of the innermost open one.
ParseCharLastTag(txt, st) ==
    LET char == txt[st.i + 1]
    IN  IF char = "<" /\ ~st.inside_tag
        THEN [st EXCEPT !.i = @ + 1, !.inside_tag = TRUE,
                        !.output = IF st.text = <<>> THEN @
                                   ELSE Append(@, [text |-> st.text,
                                                   color |-> ColorHelper_get_color(st.tag_text)]),
                        !.text = <<>>]
        ELSE IF char = ">" /\ st.inside_tag
        THEN [st EXCEPT !.i = @ + 1, !.inside_tag = FALSE, !.in_closing_tag = FALSE,
                        !.tags = IF st.in_closing_tag THEN @ ELSE Append(@, st.tag_text)]
        ELSE IF char = "/" /\ st.inside_tag
        THEN [st EXCEPT !.i = @ + 1, !.in_closing_tag = TRUE,
                        !.tags = IF @ = <<>> THEN @ ELSE SubSeq(@, 1, Len(@) - 1),
                        !.tag_text = Append(@, char)]
        ELSE IF st.inside_tag
        THEN [st EXCEPT !.i = @ + 1, !.tag_text = Append(@, char)]
        ELSE [st EXCEPT !.i = @ + 1, !.text = IF char = ">" THEN @ ELSE Append(@, char)]

\* One iteration of the loop of parse.
ParseChar(txt, st) ==
    LET char == txt[st.i + 1]
    IN  IF char = "\\" /\ st.i + 1 < Len(txt) /\ txt[st.i + 2] \in special_chars
        THEN [st EXCEPT !.i = @ + 2, !.text = Append(@, txt[st.i + 2])]
        ELSE
        LET tag == IF st.tags # <<>> THEN st.tags[Len(st.tags)] ELSE <<>>
            \* if char == ">" and inside_tag
            s1 == IF char = ">" /\ st.inside_tag
                  THEN [st EXCEPT !.inside_tag = FALSE,
                                  !.tags = IF st.in_closing_tag THEN @
                                           ELSE Append(@, st.tag_text),
                                  !.in_closing_tag = FALSE,
                                  !.tag_text = <<>>]
                  ELSE st
            \* if char == "<" and not inside_tag
            s2 == IF char = "<" /\ ~s1.inside_tag
                  THEN IF s1.text # <<>>
                       THEN [s1 EXCEPT !.inside_tag = TRUE,
                                       !.output = Append(@, [text |-> s1.text,
                                                             color |-> ColorHelper_get_color(tag)]),
                                       !.text = <<>>,
                                       !.tag_text = <<>>]
                       ELSE [s1 EXCEPT !.inside_tag = TRUE]
                  ELSE s1
            \* if char == "/" and inside_tag
            s3 == IF char = "/" /\ s2.inside_tag
                  THEN [s2 EXCEPT !.in_closing_tag = TRUE,
                                  !.tags = IF @ = <<>> THEN @ ELSE SubSeq(@, 1, Len(@) - 1)]
                  ELSE s2
            \* if not inside_tag and char != ">" and char != "<"
            s4 == IF ~s3.inside_tag /\ char # ">" /\ char # "<"
                  THEN [s3 EXCEPT !.text = Append(@, char)]
                  ELSE s3
            \* if inside_tag and char != "<" and char != ">"
            s5 == IF s4.inside_tag /\ char # "<" /\ char # ">"
                  THEN [s4 EXCEPT !.tag_text = Append(@, char)]
                  ELSE s4
        IN  [s5 EXCEPT !.i = @ + 1]

\* while i < len(txt): ...; return output
RECURSIVE ParseLoop(_, _)
ParseLoop(txt, st) ==
    IF st.i >= Len(txt) THEN st.output ELSE ParseLoop(txt, ParseChar(txt, st))

\* parse: txt = "<@p>" + txt + "</>", then the loop.
ColoredText_parse(txt) ==
    ParseLoop(<<"<", "@", "p", ">">> \o txt \o <<"<", "/", ">">>, ParseStart)

(***************************************************************************)
(* SpecColor: ColoredText.parse on strings made of pieces of text and of   *)
(* opening and closing tags.                                              *)
(***************************************************************************)
OpenTag(name) == <<"<">> \o name \o <<">">>
CloseTag(name) == <<"<", "/">> \o name \o <<">">>

\* The pieces: a character of text, <r>, <w>, </r>, </w>, </>.
Pieces ==
    {<<"a">>, <<"b">>, OpenTag(<<"r">>), OpenTag(<<"w">>),
     CloseTag(<<"r">>), CloseTag(<<"w">>), CloseTag(<<>>)}

\* <red>a<white>b</white>a</red>, the shape of the example of parse
ExamplePieces ==
    <<OpenTag(<<"r", "e", "d">>), <<"a">>, OpenTag(<<"w", "h", "i", "t", "e">>), <<"b">>,
      CloseTag(<<"w", "h", "i", "t", "e">>), <<"a">>, CloseTag(<<"r", "e", "d">>)>>

ColorInputs ==
    UNION {[1..n -> Pieces] : n \in 0..MaxPieces} \cup {ExamplePieces}

InitColor ==
    /\ ctIn \in ColorInputs
    /\ ctOut = <<>>
    /\ ctDone = FALSE
    /\ IdleBut("color")

CtParse ==
    /\ ~ctDone
    /\ ctOut' = ColoredText_parse(Concat(ctIn))
    /\ ctDone' = TRUE
    /\ UNCHANGED <<ctIn, ctOthers>>

NextColor == CtParse

SpecColor == InitColor /\ [][NextColor]_vars

(***************************************************************************)
(* map.chapters: Chapters, a list of ChaptersStars, each a list of         *)
(* Chapter with selected_stage, clear_progress, stages (the clear_times of *)
(* each Stage) and chapter_unlock_state.                                   *)
(***************************************************************************)
\* n calls of read_int: the integers read; a call past the end fails.
ReadInts(s, n) ==
    [vals |-> [k \in 1..n |-> IF s.err \/ s.pos + n > s.len THEN 0 ELSE IntAt(s, s.pos + k)],
     stream |-> Skip(s, n)]

\* The chapters of all groups, group by group: the order of the loops
\* for chapter in self.chapters: for chapter in chapter.chapters.
AllChapters(chapters) == Concat(chapters)

\* One pass of write: the field of every chapter, in order.
ChaptersFieldPass(chapters, field) ==
    LET all == AllChapters(chapters)
    IN  IF field = "stages"
        THEN Concat([k \in 1..Len(all) |-> all[k].stages])
        ELSE [k \in 1..Len(all) |-> all[k][field]]

\* Chapters.write.  len(self.chapters[0].chapters) and
\* len(self.chapters[0].chapters[0].stages) raise IndexError on an empty list.
Chapters_write(chapters, write_every_time) ==
    IF chapters = <<>> \/ chapters[1] = <<>>
    THEN [raised |-> TRUE, out |-> <<>>]
    ELSE LET num_chapters == Len(chapters)
             num_stars == Len(chapters[1])
             num_stages == Len(chapters[1][1].stages)
             short == <<num_chapters, num_stars>>
             long == <<num_chapters, num_stages, num_stars>>
         IN  [raised |-> FALSE,
              out |-> (IF write_every_time THEN short ELSE long)
                      \o ChaptersFieldPass(chapters, "selected_stage")
                      \o (IF write_every_time THEN short ELSE <<>>)
                      \o ChaptersFieldPass(chapters, "clear_progress")
                      \o (IF write_every_time THEN long ELSE <<>>)
                      \o ChaptersFieldPass(chapters, "stages")
                      \o (IF write_every_time THEN short ELSE <<>>)
                      \o ChaptersFieldPass(chapters, "chapter_unlock_state")]

\* Chapters.read; num_chapters, num_stars, num_stages are its total_chapters,
\* total_stars, total_stages.  The lists are built from the first header; with
\* read_every_time the headers before the later passes are read again and
\* num_stages is the one read before the stages.
Chapters_read(s, read_every_time) ==
    LET h1 == ReadInts(s, IF read_every_time THEN 2 ELSE 3)
        num_chapters == Max(h1.vals[1], 0)
        num_stars == Max(IF read_every_time THEN h1.vals[2] ELSE h1.vals[3], 0)
        n == num_chapters * num_stars
        sel == ReadInts(h1.stream, n)
        h2 == ReadInts(sel.stream, IF read_every_time THEN 2 ELSE 0)
        prog == ReadInts(h2.stream, n)
        h3 == ReadInts(prog.stream, IF read_every_time THEN 3 ELSE 0)
        num_stages == Max(IF read_every_time THEN h3.vals[2] ELSE h1.vals[2], 0)
        stg == ReadInts(h3.stream, n * num_stages)
        h4 == ReadInts(stg.stream, IF read_every_time THEN 2 ELSE 0)
        unl == ReadInts(h4.stream, n)
    IN  [raised |-> unl.stream.err,
         stream |-> unl.stream,
         chapters |->
            [g \in 1..num_chapters |->
                [c \in 1..num_stars |->
                    LET k == (g - 1) * num_stars + c
                    IN  [selected_stage |-> sel.vals[k],
                         clear_progress |-> prog.vals[k],
                         stages |-> [i \in 1..num_stages |->
                                        stg.vals[(k - 1) * num_stages + i]],
                         chapter_unlock_state |-> unl.vals[k]]]]]

(***************************************************************************)
(* SpecChapters: a Chapters container of uniform shape is written with     *)
(* Chapters.write and read back with Chapters.read, with the same flag.    *)
(***************************************************************************)
\* A container of the given shape; seed 0 holds only zeros, every other seed
\* holds values that all differ.
UniformChapters(num_chapters, num_stars, num_stages, seed) ==
    [g \in 1..num_chapters |->
        [c \in 1..num_stars |->
            [selected_stage |-> seed * (1000 * g + 100 * c + 1),
             clear_progress |-> seed * (1000 * g + 100 * c + 2),
             stages |-> [i \in 1..num_stages |-> seed * (1000 * g + 100 * c + 10 + i)],
             chapter_unlock_state |-> seed * (1000 * g + 100 * c + 3)]]]

InitChapters ==
    /\ \E num_chapters \in 0..MaxGroups, num_stars \in 0..MaxStars,
          num_stages \in 0..MaxStages, seed \in 0..1 :
            kcChapters = UniformChapters(num_chapters, num_stars, num_stages, seed)
    /\ kcFlag \in BOOLEAN
    /\ kcOut = <<>>
    /\ kcBack = <<>>
    /\ kcLast = [op |-> "none", raised |-> FALSE, pos |-> 0]
    /\ IdleBut("chapters")

KcWrite ==
    /\ kcLast.op = "none"
    /\ LET r == Chapters_write(kcChapters, kcFlag)
       IN  /\ kcOut' = r.out
           /\ kcLast' = [op |-> "write", raised |-> r.raised, pos |-> 0]
    /\ UNCHANGED <<kcChapters, kcFlag, kcBack, kcOthers>>

KcRead ==
    /\ kcLast.op = "write" /\ ~kcLast.raised
    /\ LET r == Chapters_read(DataStream(kcOut), kcFlag)
       IN  /\ kcBack' = IF r.raised THEN <<>> ELSE r.chapters
           /\ kcLast' = [op |-> "read", raised |-> r.raised, pos |-> r.stream.pos]
    /\ UNCHANGED <<kcChapters, kcFlag, kcOut, kcOthers>>

NextChapters ==
    \/ KcWrite
    \/ KcRead

SpecChapters == InitChapters /\ [][NextChapters]_vars

(***************************************************************************)
(* edits.other.trade_progress.  save_stats and the dicts in it are Python  *)
(* dicts: trade_progress and storage name the dicts inside save_stats, so  *)
(* an assignment through them changes save_stats.                          *)
(***************************************************************************)
\* The slots whose type is 0, by position in the list.
FreeSlots(storage) == {i \in 1..Len(storage.types) : storage.types[i] = 0}

\* set_trade_progress_val: the first slot of type 0 gets id 1 and type 2.
set_trade_progress_val(storage) ==
    IF FreeSlots(storage) = {}
    THEN [storage |-> storage, space |-> FALSE]
    ELSE LET i == Least(FreeSlots(storage))
         IN  [storage |-> [ids |-> [storage.ids EXCEPT ![i] = 1],
                           types |-> [storage.types EXCEPT ![i] = 2]],
              space |-> TRUE]

\* set_trade_progress; tickets_value is tickets.value after tickets.edit().
\* trade_progress["Value"] is assigned in the dict of save_stats before the
\* storage is looked at.
set_trade_progress(save_stats, tickets_value) ==
    LET r == set_trade_progress_val(save_stats.cat_storage)
    IN  [save_stats EXCEPT !.trade_progress.Value = tickets_value * 5,
                           !.cat_storage = r.storage]

(***************************************************************************)
(* SpecTrade: set_trade_progress on save data whose cat storage has free   *)
(* slots or none.                                                          *)
(***************************************************************************)
\* The types of the slots of a storage: 0 is a free slot.
StorageTypes == UNION {[1..n -> {0, 1}] : n \in 0..MaxSlots}

InitTrade ==
    /\ \E types \in StorageTypes, value \in {0, 5}, owned \in 0..1 :
        tpStats = [trade_progress |-> [Value |-> value],
                   cat_storage |-> [ids |-> [i \in 1..Len(types) |->
                                               IF types[i] = 0 THEN 0 ELSE 40 + i],
                                    types |-> types],
                   rare_tickets |-> [Value |-> owned]]
    /\ tpLast = [op |-> "none", tickets |-> 0, space |-> FALSE]
    /\ tpOps = 0
    /\ IdleBut("trade")

\* set_trade_progress(save_stats), the user entering a ticket count in
\* tickets.edit().
TpSetTradeProgress ==
    /\ tpOps < MaxTradeOps
    /\ \E tickets_value \in 0..MaxTickets :
        /\ tpStats' = set_trade_progress(tpStats, tickets_value)
        /\ tpLast' = [op |-> "set_trade_progress", tickets |-> tickets_value,
                      space |-> set_trade_progress_val(tpStats.cat_storage).space]
    /\ tpOps' = tpOps + 1
    /\ UNCHANGED tpOthers

NextTrade == TpSetTradeProgress

SpecTrade == InitTrade /\ [][NextTrade]_vars

(***************************************************************************)
(* SpecStage: one Stage object and the methods called on it.               *)
(***************************************************************************)
SgCall(op, increase, flag) == [op |-> op, increase |-> increase, flag |-> flag]

\* A stage as Stage(clear_times) makes it, with a treasure set.
InitStage ==
    /\ \E clear_times \in 0..MaxValue, treasure \in 0..MaxValue :
          sgStage = Stage_set_treasure(Stage(clear_times), treasure)
    /\ sgLast = SgCall("none", FALSE, FALSE)
    /\ sgOps = 0
    /\ IdleBut("stage")

StageCall(st, call) ==
    /\ sgOps < MaxStageOps
    /\ sgStage' = st
    /\ sgLast' = call
    /\ sgOps' = sgOps + 1
    /\ UNCHANGED sgOthers

SgClearStage ==
    \E increase \in BOOLEAN :
        StageCall(Stage_clear_stage(sgStage, increase), SgCall("clear_stage", increase, FALSE))

SgUnclearStage ==
    StageCall(Stage_unclear_stage(sgStage), SgCall("unclear_stage", FALSE, FALSE))

SgIsCleared ==
    StageCall(sgStage, SgCall("is_cleared", FALSE, Stage_is_cleared(sgStage)))

NextStage ==
    \/ SgClearStage
    \/ SgUnclearStage
    \/ SgIsCleared

SpecStage == InitStage /\ [][NextStage]_vars

(***************************************************************************)
(* SpecClearStory: the clear_story flow on a container made by init, read  *)
(* or deserialize.                                                         *)
(***************************************************************************)
\* What the user selects, in the order selected.
StorySelections == {<<>>, <<1>>, <<0, 1>>, <<1, 0>>, <<6, 4>>}

\* The answers of a progress dialog: None, or a progress in 0..48.
ProgressAnswers ==
    {NoLevel} \cup {[given |-> TRUE, val |-> v] : v \in {0, MaxValue, max_stages}}

\* The answers of the individual/all dialog, as clear_story uses them.
ChoiceAnswers == {NoLevel, [given |-> TRUE, val |-> 0], [given |-> TRUE, val |-> 1]}

InitClearStory ==
    /\ \/ story = StoryChapters_init /\ origin = "init"
       \/ \E s \in StoryStreams :
            story = StoryChapters_read(s).chapters /\ origin = "read"
       \/ \E data \in StoryDatas :
            story = StoryChapters_deserialize(data) /\ origin = "deserialize"
    /\ stream = NoStream
    /\ output = <<>>
    /\ stLast = NoStCall
    /\ stOps = 0
    /\ IdleBut("story")

\* The progress each selected chapter was given: -1 for none.
GivenProgress(selected, choice, answers) ==
    [k \in 1..Len(selected) |->
        LET answer == IF Len(selected) = 1 \/ (choice.given /\ choice.val = 0)
                      THEN answers[k] ELSE answers[1]
        IN  IF (Len(selected) # 1 /\ ~choice.given) \/ ~answer.given
            THEN -1 ELSE answer.val]

CsClearStory ==
    /\ stOps < MaxClearStories
    /\ \E selected \in StorySelections :
        \E choice \in (IF Len(selected) <= 1 THEN {NoLevel} ELSE ChoiceAnswers) :
            \E answers \in [1..(IF Len(selected) <= 1 \/ (choice.given /\ choice.val = 0)
                                THEN Max(Len(selected), 1) ELSE 1) -> ProgressAnswers] :
                LET r == StoryChapters_clear_story(story, selected, choice, answers)
                IN  /\ story' = r.chapters
                    /\ stLast' = [op |-> "clear_story",
                                  a |-> IF choice.given THEN choice.val ELSE 0,
                                  b |-> 0, c |-> 0, ids |-> selected,
                                  raised |-> r.raised,
                                  answers |-> GivenProgress(selected, choice, answers)]
    /\ stOps' = stOps + 1
    /\ UNCHANGED <<stream, output, origin, stOthers>>

NextClearStory == CsClearStory

SpecClearStory == InitClearStory /\ [][NextClearStory]_vars

(***************************************************************************)
(* SpecConvert: convert_stage_id applied to a stage index of the stage     *)
(* selection (range(48)), and again to its own result.                     *)
(***************************************************************************)
InitConvert ==
    /\ cvIndex \in 0..(max_stages - 1)
    /\ cvOut = <<>>
    /\ IdleBut("convert")

Convert ==
    /\ Len(cvOut) < MaxConversions
    /\ cvOut' = Append(cvOut,
                       StoryChapters_convert_stage_id(
                           IF cvOut = <<>> THEN cvIndex ELSE cvOut[Len(cvOut)]))
    /\ UNCHANGED <<cvIndex, cvOthers>>

NextConvert == Convert

SpecConvert == InitConvert /\ [][NextConvert]_vars

(***************************************************************************)
(* The claims.                                                             *)
(***************************************************************************)
StageCleared(ch, i) == HasStage(ch, i) /\ ch.stages[i + 1].clear_times > 0
StageUncleared(ch, i) == HasStage(ch, i) /\ ch.stages[i + 1].clear_times = 0

\* C1: after Chapter.apply_progress(p) has returned, for p in 0..48: progress
\* is p, every stage with index in [0, p) is cleared and every stage with
\* index in (p, 48) is uncleared.
C1_ApplyProgress ==
    (chLast.op = "apply_progress" /\ ~chLast.raised) =>
        /\ chapter.progress = chLast.a
        /\ \A i \in 0..47 :
            /\ i < chLast.a => StageCleared(chapter, i)
            /\ i > chLast.a => StageUncleared(chapter, i)

\* apply_progress(p) returned with p strictly inside the range, on a chapter
\* whose stage p was cleared before: it is left as it was.
C1_Witness ==
    /\ chLast.op = "apply_progress" /\ ~chLast.raised
    /\ chLast.a \in 1..46
    /\ StageCleared(chapter, chLast.a)
    /\ StageUncleared(chapter, 47)

\* C8: Chapter.clear_chapter() does what Chapter.apply_progress(48) does from
\* the same state, and when it returns progress is 48 and the stages 0..47
\* are all cleared.
C8_ClearChapter ==
    [][(chLast'.op = "clear_chapter" /\ chOps' = chOps + 1) =>
          /\ chapter' = Chapter_apply_progress(chapter, 48).chapter
          /\ chLast'.raised = Chapter_apply_progress(chapter, 48).raised
          /\ ~chLast'.raised =>
                /\ chapter'.progress = 48
                /\ \A i \in 0..47 : StageCleared(chapter', i)]_vars

\* clear_chapter() returned on a chapter that holds a stage it left at the
\* clear count it had (more than 1) and keeps the stages past 47 uncleared.
C8_Witness ==
    /\ chLast.op = "clear_chapter" /\ ~chLast.raised
    /\ chapter.progress = 48
    /\ \E i \in 0..47 : HasStage(chapter, i) /\ chapter.stages[i + 1].clear_times > 1
    /\ StageUncleared(chapter, 48)

\* C2: StoryChapters.read of a stream of 1020 integers followed by
\* StoryChapters.write, with no mutation in between, writes the same 1020
\* integers in the same order.
C2_RoundTrip ==
    (stLast.op = "write" /\ origin = "read" /\ stOps = 1) =>
        /\ Len(output) = 1020
        /\ output = StreamData(stream)

\* A container read from the stream of 1020 different integers was written back.
C2_Witness ==
    /\ stLast.op = "write" /\ origin = "read" /\ stOps = 1
    /\ stream.gen = "ramp" /\ stream.len = 1020
    /\ Len(output) = 1020

\* C3: StoryChapters.read decodes exactly 10 chapters of 51 stages and consumes
\* exactly 1020 integers: integer i is selected_stage of chapter i, integer
\* 10 + i is its progress, integer 20 + 51 c + s is clear_times of stage s of
\* chapter c, integer 530 + 49 c + s is treasure of stage s (0..48) of chapter
\* c (integers counted from 0); the timed-event scalars and every
\* itf_timed_score are left at 0.
C3_ReadLayout ==
    (stLast.op = "read" /\ ~stLast.raised) =>
        /\ Len(story) = 10
        /\ stream.pos = 1020
        /\ \A c \in 0..9 :
            LET ch == story[c + 1]
            IN  /\ ch.selected_stage = IntAt(stream, c + 1)
                /\ ch.progress = IntAt(stream, 10 + c + 1)
                /\ Len(ch.stages) = 51
                /\ \A st \in 0..50 :
                    /\ ch.stages[st + 1].clear_times = IntAt(stream, 20 + 51 * c + st + 1)
                    /\ ch.stages[st + 1].itf_timed_score = 0
                /\ \A st \in 0..48 :
                    ch.stages[st + 1].treasure = IntAt(stream, 530 + 49 * c + st + 1)
                /\ ch.time_until_treasure_chance = 0
                /\ ch.treasure_chance_duration = 0
                /\ ch.treasure_chance_value = 0
                /\ ch.treasure_chance_stage_id = 0
                /\ ch.treasure_festival_type = 0

\* The stream of 1020 different integers was read: the last treasure read is
\* the 1020th integer.
C3_Witness ==
    /\ stLast.op = "read" /\ ~stLast.raised
    /\ stream.gen = "ramp"
    /\ story[10].stages[49].treasure = 1020
    /\ story[1].selected_stage = 1

\* C4: every Chapter has exactly 51 stages, after construction, after decoding
\* (read_clear_times, deserialize) and after every mutation.
C4_StageCount == Len(chapter.stages) = 51

\* C5: the progress of a Chapter is always within 0..48, after any sequence of
\* clear_stage, apply_progress, clear_chapter and read_progress.
C5_ProgressRange == chapter.progress \in 0..48

\* C6: no treasure edit (set_treasure, the whole-chapter treasure edit) changes
\* the treasure of a stage with index 48, 49 or 50.
C6_TreasureSubrange ==
    [][(stLast'.op \in {"set_treasure", "edit_treasures_whole_chapters"}
        /\ stOps' = stOps + 1) =>
          \A c \in 1..Len(story) : \A i \in 48..50 :
              HasStage(story[c], i) =>
                  story'[c].stages[i + 1].treasure = story[c].stages[i + 1].treasure]_vars

\* The prerequisite table of clear_previous_chapters, over the 9 real chapters.
PrerequisiteTable(k) ==
    CASE k = 0 -> {}
      [] k = 1 -> {0}
      [] k = 2 -> {0, 1}
      [] k = 3 -> {0}
      [] k = 4 -> {0, 3}
      [] k = 5 -> {0, 3, 4}
      [] k = 6 -> {0, 3}
      [] k = 7 -> {0, 3, 6}
      [] k = 8 -> {0, 3, 6, 7}

\* The container index of real chapter r: index 3 is skipped.
ContainerIndex(r) == IF r < 3 THEN r ELSE r + 1

\* C7: clear_previous_chapters(k), for k in 0..8, applies clear_chapter
\* (progress 48, stages 0..47 cleared) to exactly the real chapters of the
\* prerequisite table and leaves every other chapter as it was, chapter k and
\* the skipped container index 3 among them.
C7_ClearPrevious ==
    [][(stLast'.op = "clear_previous_chapters" /\ stOps' = stOps + 1
        /\ ~stLast'.raised) =>
          /\ Len(story') = Len(story)
          /\ \A c \in 0..(Len(story) - 1) :
                IF \E r \in PrerequisiteTable(stLast'.a) : ContainerIndex(r) = c
                THEN /\ story'[c + 1] = Chapter_clear_chapter(story[c + 1]).chapter
                     /\ story'[c + 1].progress = 48
                     /\ \A i \in 0..47 : StageCleared(story'[c + 1], i)
                ELSE story'[c + 1] = story[c + 1]]_vars

\* clear_previous_chapters(7) returned on a container read from a save: the
\* container indices 0, 4 and 7 are cleared, index 3 and chapter 7 itself
\* (container index 8) are not.
C7_Witness ==
    /\ stLast.op = "clear_previous_chapters" /\ stLast.a = 7 /\ ~stLast.raised
    /\ origin = "read"
    /\ story[1].progress = 48 /\ story[5].progress = 48 /\ story[8].progress = 48
    /\ story[4].progress # 48 /\ story[9].progress # 48
    /\ \E i \in 0..47 : ~StageCleared(story[9], i)

\* C9: get_real_chapters() returns exactly 9 chapters whatever the container
\* holds (a container of init, read or deserialize): the chapters of the
\* container in order with index 3 skipped, as the same objects, so that an
\* edit of a stage made through a returned chapter shows in the container.
C9_RealChapters ==
    LET real == StoryChapters_get_real_chapters(story)
    IN  /\ Len(real) = 9
        /\ \A r \in 0..8 : real[r + 1] = ContainerIndex(r) + 1
        /\ (stLast.op = "edit_stage_clear_count" /\ ~stLast.raised) =>
              story[ContainerIndex(stLast.a) + 1].stages[stLast.b + 1].clear_times
                  = stLast.c

\* C10: convert_stage_id maps i to 45 - i for i in 0..45, maps 46 and 47 to
\* themselves, and applied twice gives i back, for every i in 0..47.
C10_ConvertInvolution ==
    /\ Len(cvOut) >= 1 =>
          cvOut[1] = IF cvIndex <= 45 THEN 45 - cvIndex ELSE cvIndex
    /\ Len(cvOut) >= 2 => cvOut[2] = cvIndex

\* Index 47 was converted twice.
C10_Witness == cvIndex = 47 /\ Len(cvOut) = 2 /\ cvOut[1] = 47

\* The timed-event scalars of every chapter of a container.
FestivalValues(chapters) ==
    [c \in 1..Len(chapters) |-> [f \in 1..Len(FestivalFields) |-> chapters[c][FestivalFields[f]]]]

\* The itf_timed_score of every stage of every chapter of a container.
ItfValues(chapters) ==
    [c \in 1..Len(chapters) |->
        [i \in 1..Len(chapters[c].stages) |-> chapters[c].stages[i].itf_timed_score]]

\* C11: a decode that runs out of integers leaves no half-decoded container:
\* a failed StoryChapters.read returns no container, a failed
\* read_treasure_festival leaves the timed-event scalars of every chapter as
\* they were, and a failed read_itf_timed_scores leaves every itf_timed_score
\* as it was.
C11_NoHalfDecoded ==
    [][stLast'.raised =>
          /\ stLast'.op = "read" => (origin' = "failed" /\ story' = story)
          /\ stLast'.op = "read_treasure_festival" =>
                FestivalValues(story') = FestivalValues(story)
          /\ stLast'.op = "read_itf_timed_scores" =>
                ItfValues(story') = ItfValues(story)]_vars

\* C12: StoryChapters.deserialize(c.serialize()) has as many chapters as c
\* and, chapter by chapter, the same selected_stage, progress, five timed-event
\* scalars and, stage by stage, the same clear_times, treasure and
\* itf_timed_score; and serializing the result gives c.serialize() again.
C12_SerializeRoundTrip ==
    [][stLast'.op = "serialize_deserialize" =>
          /\ Len(story') = Len(story)
          /\ \A c \in 1..Len(story) :
                /\ story'[c].selected_stage = story[c].selected_stage
                /\ story'[c].progress = story[c].progress
                /\ \A f \in 1..Len(FestivalFields) :
                      story'[c][FestivalFields[f]] = story[c][FestivalFields[f]]
                /\ Len(story'[c].stages) = Len(story[c].stages)
                /\ \A i \in 1..Len(story[c].stages) :
                      /\ story'[c].stages[i].clear_times = story[c].stages[i].clear_times
                      /\ story'[c].stages[i].treasure = story[c].stages[i].treasure
                      /\ story'[c].stages[i].itf_timed_score
                            = story[c].stages[i].itf_timed_score
          /\ StoryChapters_serialize(story') = StoryChapters_serialize(story)]_vars

\* A container with every kind of field read from a stream of different
\* integers went through serialize and deserialize.
C12_Witness ==
    /\ stLast.op = "serialize_deserialize"
    /\ stream.gen = "ramp"
    /\ story[10].treasure_festival_type = StoryInts + FestivalInts
    /\ story[8].stages[total_stages].itf_timed_score = StoryInts + FestivalInts + ItfInts
    /\ story[1].stages[1].clear_times # 0 /\ story[1].stages[1].treasure # 0

\* The text has no comment marker and no padding.
PlainText(text) ==
    /\ \A i \in 1..(Len(text) - 1) : ~(text[i] = "/" /\ text[i + 1] = "/")
    /\ Unpad(text) = text

\* C13: for a delimited text x with no comments and no padding, parsing x,
\* writing the table out with to_data() and parsing what was written gives the
\* rows and cell texts that parsing x gave, in the same order.
C13_TabularRoundTrip ==
    [][(csvLast'.op = "to_data" /\ csvSaves = 0 /\ PlainText(csvData)) =>
          csvLines' = csvLines]_vars

\* C14: get_row(i) and row[i] change neither the table nor the cursor; for i
\* at or past the number of rows get_row(i) is an empty row, for i at or past
\* the number of cells row[i] is an empty cell, and for i in range they are the
\* stored row and the stored cell.
C14_OutOfRangeAccess ==
    [][/\ csvLast'.op \in {"get_row", "getitem"} =>
             (csvLines' = csvLines /\ csvIndex' = csvIndex)
       /\ csvLast'.op = "get_row" =>
             /\ csvLast'.a >= Len(csvLines) => csvLast'.row = <<>>
             /\ (csvLast'.a >= 0 /\ csvLast'.a < Len(csvLines)) =>
                   csvLast'.row = csvLines[csvLast'.a + 1]
       /\ csvLast'.op = "getitem" =>
             /\ csvLast'.b >= Len(csvLast.row) => csvLast'.cell = <<>>
             /\ (csvLast'.b >= 0 /\ csvLast'.b < Len(csvLast.row)) =>
                   csvLast'.cell = csvLast.row[csvLast'.b + 1]]_vars

\* A cell past the end of a row of two cells was asked for, after a row past
\* the end of the table had been.
C14_Witness ==
    /\ csvLast.op = "getitem"
    /\ Len(csvLast.row) = 2 /\ csvLast.b >= 2 /\ csvLast.cell = <<>>
    /\ csvLast.row[1] # <<>>
    /\ Len(csvLines) = 1 /\ csvLast.a = 0

\* C15: the cursor starts at 0 and stays within 0..number of rows; read_line()
\* with the cursor before the end returns the row at the cursor and moves the
\* cursor by one; with the cursor at the end it returns None and leaves the
\* cursor; has_line() is true exactly when the cursor is before the end.
C15_ForwardCursor ==
    /\ [](csvIndex \in 0..Len(csvLines))
    /\ [][/\ csvLast'.op = "read_line" =>
                IF csvIndex < Len(csvLines)
                THEN /\ ~csvLast'.none
                     /\ csvLast'.row = csvLines[csvIndex + 1]
                     /\ csvIndex' = csvIndex + 1
                ELSE /\ csvLast'.none
                     /\ csvIndex' = csvIndex
          /\ csvLast'.op = "has_line" =>
                (csvLast'.flag <=> csvIndex < Len(csvLines))
          /\ csvLast'.op \in {"read_line", "has_line"} => csvLines' = csvLines]_vars

\* read_line() returned None with the cursor at the end of a table of three rows.
C15_Witness ==
    /\ csvLast.op = "read_line" /\ csvLast.none
    /\ Len(csvLines) = 3 /\ csvIndex = 3

\* The k-th smallest element of a set of integers.
Nth(S, k) == CHOOSE i \in S : Cardinality({j \in S : j < i}) = k - 1

\* The cells of a line that precede its first "//", trimmed, without the
\* empty ones, in the order of the line.
CellsBeforeComment(line, delimeter) ==
    LET marks == {p \in 1..(Len(line) - 1) : line[p] = "/" /\ line[p + 1] = "/"}
        stop == IF marks = {} THEN Len(line) + 1 ELSE Nth(marks, 1)
        seps == {0, stop} \cup {i \in 1..(stop - 1) : line[i] = delimeter}
        cells == [k \in 1..(Cardinality(seps) - 1) |->
                    Strip(SubSeq(line, Nth(seps, k) + 1, Nth(seps, k + 1) - 1))]
    IN  SelectSeq(cells, LAMBDA cell : cell # <<>>)

C17_ApplyProgressFrame ==
    [][(chLast'.op = "apply_progress" /\ chOps' = chOps + 1) =>
          /\ Len(chapter'.stages) = Len(chapter.stages)
          /\ chapter'.selected_stage = chapter.selected_stage
          /\ \A f \in 1..Len(FestivalFields) :
                chapter'[FestivalFields[f]] = chapter[FestivalFields[f]]
          /\ \A i \in 0..(Len(chapter.stages) - 1) :
                /\ chapter'.stages[i + 1].treasure = chapter.stages[i + 1].treasure
                /\ chapter'.stages[i + 1].itf_timed_score
                      = chapter.stages[i + 1].itf_timed_score
                /\ (i = chLast'.a \/ i >= 48) =>
                      chapter'.stages[i + 1].clear_times = chapter.stages[i + 1].clear_times]_vars

\* apply_progress(p) returned on a decoded chapter and left stage p uncleared
\* between cleared stages below it, with treasures in place.
C17_Witness ==
    /\ chLast.op = "apply_progress" /\ ~chLast.raised
    /\ chLast.a \in 1..46
    /\ StageUncleared(chapter, chLast.a)
    /\ StageCleared(chapter, chLast.a - 1)
    /\ \E i \in 1..Len(chapter.stages) : chapter.stages[i].treasure # 0
    /\ Len(chapter.stages) = 51 /\ chapter.selected_stage # 0

\* C19: Chapter.clear_stage(stage_id, increase, overwrite_progress) clears the
\* stage at stage_id (clear_times + 1 with increase, else max(clear_times, 1)),
\* sets progress to stage_id when overwrite_progress is set and to
\* max(progress, stage_id + 1) otherwise, so that progress never decreases in
\* the default mode, and changes no other stage.
C19_ClearStage ==
    [][(chLast'.op = "clear_stage" /\ chOps' = chOps + 1 /\ ~chLast'.raised) =>
          LET id == chLast'.a
              old == chapter.stages[id + 1]
          IN  /\ StageCleared(chapter', id)
              /\ chapter'.stages[id + 1] =
                    [old EXCEPT !.clear_times =
                        IF chLast'.increase THEN old.clear_times + 1
                        ELSE IF old.clear_times >= 1 THEN old.clear_times ELSE 1]
              /\ chLast'.overwrite => chapter'.progress = id
              /\ ~chLast'.overwrite =>
                    /\ chapter'.progress
                          = (IF chapter.progress >= id + 1 THEN chapter.progress ELSE id + 1)
                    /\ chapter'.progress >= chapter.progress
              /\ Len(chapter'.stages) = Len(chapter.stages)
              /\ \A i \in 0..(Len(chapter.stages) - 1) :
                    i # id => chapter'.stages[i + 1] = chapter.stages[i + 1]]_vars

\* clear_stage(stage_id, overwrite_progress=True) set the progress of a
\* decoded chapter to stage_id.
C19_Witness ==
    /\ chLast.op = "clear_stage" /\ ~chLast.raised /\ chLast.overwrite
    /\ chLast.a \in 4..47
    /\ chapter.progress = chLast.a
    /\ StageCleared(chapter, chLast.a)
    /\ chapter.selected_stage # 0

\* C20: Stage.clear_stage(increase=False) sets clear_times to
\* max(clear_times, 1), so it never decreases clear_times and a second call
\* changes nothing; clear_stage(increase=True) adds exactly 1;
\* unclear_stage sets clear_times to 0; is_cleared() is clear_times > 0.
C20_StageClear ==
    [][sgOps' = sgOps + 1 =>
          /\ (sgLast'.op = "clear_stage" /\ ~sgLast'.increase) =>
                /\ sgStage'.clear_times
                      = (IF sgStage.clear_times >= 1 THEN sgStage.clear_times ELSE 1)
                /\ sgStage'.clear_times >= sgStage.clear_times
                /\ (sgLast.op = "clear_stage" /\ ~sgLast.increase) => sgStage' = sgStage
          /\ (sgLast'.op = "clear_stage" /\ sgLast'.increase) =>
                sgStage'.clear_times = sgStage.clear_times + 1
          /\ sgLast'.op = "unclear_stage" => sgStage'.clear_times = 0
          /\ sgLast'.op = "is_cleared" =>
                /\ sgLast'.flag <=> sgStage.clear_times > 0
                /\ sgStage' = sgStage
          /\ sgStage'.treasure = sgStage.treasure
          /\ sgStage'.itf_timed_score = sgStage.itf_timed_score]_vars

\* clear_stage() without increase was called on a stage cleared more than once.
C20_Witness ==
    /\ sgLast.op = "clear_stage" /\ ~sgLast.increase
    /\ sgStage.clear_times > 1
    /\ sgOps >= 2

\* C18: when clear_story has finished, in the per-chapter or the all-chapters
\* mode and for any selected chapters in the order selected, every selected
\* chapter that was given a progress other than 0 has every chapter of its
\* row of the prerequisite table fully cleared: progress 48, stages 0..47
\* cleared.
C18_ClearStoryPrerequisites ==
    (stLast.op = "clear_story" /\ ~stLast.raised) =>
        \A k \in 1..Len(stLast.ids) :
            stLast.answers[k] > 0 =>
                \A r \in PrerequisiteTable(stLast.ids[k]) :
                    /\ story[ContainerIndex(r) + 1].progress = 48
                    /\ \A i \in 0..47 : StageCleared(story[ContainerIndex(r) + 1], i)

\* The itf_timed_score values of a chapter, stage 0 first.
ItfScores(ch) == [i \in 1..Len(ch.stages) |-> ch.stages[i].itf_timed_score]

\* The chapter with its timed scores set aside: every other field.
WithoutItfScores(ch) ==
    [ch EXCEPT !.stages = [i \in 1..Len(@) |-> [@[i] EXCEPT !.itf_timed_score = 0]]]

\* C21: read_itf_timed_scores that returns consumes exactly 3 * 51 integers
\* and assigns them in order to itf_timed_score of stages 0..50 of the chapters
\* at indices 5, 6, 7, changing no other field of them and no field of the
\* chapters 0..4, 8, 9; write_itf_timed_scores emits exactly those 153 values
\* in that order and changes nothing; reading what was written restores the
\* container and consumes the whole stream.
C21_ItfTimedScores ==
    [][/\ (stLast'.op = "read_itf_timed_scores" /\ stOps' = stOps + 1
           /\ ~stLast'.raised) =>
            /\ stream'.pos = stream.pos + 3 * 51
            /\ Len(story') = Len(story)
            /\ \A c \in 0..9 :
                IF c \in {5, 6, 7}
                THEN /\ ItfScores(story'[c + 1]) =
                            [i \in 1..51 |-> IntAt(stream, stream.pos + 51 * (c - 5) + i)]
                     /\ WithoutItfScores(story'[c + 1]) = WithoutItfScores(story[c + 1])
                ELSE story'[c + 1] = story[c + 1]
       /\ (stLast'.op = "write_itf_timed_scores" /\ stLast.op # "write_itf_timed_scores") =>
            /\ output' = ItfScores(story[6]) \o ItfScores(story[7]) \o ItfScores(story[8])
            /\ Len(output') = 3 * 51
            /\ story' = story
       /\ stLast'.op = "reload_itf_timed_scores" /\ stLast.op = "write_itf_timed_scores" =>
            /\ ~stLast'.raised
            /\ story' = story
            /\ stream'.pos = stream'.len /\ stream'.len = 3 * 51
      ]_vars

\* Timed scores read from a stream of different integers were written and
\* read back: chapter 6 holds different scores, chapter 4 and chapter 8 none.
C21_Witness ==
    /\ stLast.op = "reload_itf_timed_scores" /\ ~stLast.raised
    /\ ItfScores(story[7])[1] # ItfScores(story[7])[2]
    /\ ItfScores(story[6])[1] # ItfScores(story[8])[1]
    /\ \A c \in {4, 8} : \A i \in 1..51 : ItfScores(story[c + 1])[i] = 0
    /\ output = ItfScores(story[6]) \o ItfScores(story[7]) \o ItfScores(story[8])

\* C22: set_line(index, line) with 0 <= index < number of rows replaces
\* exactly row index, the number of rows and every other row staying as they
\* were; with index >= number of rows it appends exactly one row at the end;
\* add_line appends exactly one row at the end; none of them moves the cursor.
C22_SetLineAddLine ==
    [][csvSaves' = csvSaves + 1 =>
        /\ csvIndex' = csvIndex
        /\ (csvLast'.op = "set_line" /\ csvLast'.a >= 0 /\ csvLast'.a < Len(csvLines)) =>
            /\ Len(csvLines') = Len(csvLines)
            /\ csvLines'[csvLast'.a + 1] = csvLast'.row
            /\ \A i \in 1..Len(csvLines) : i # csvLast'.a + 1 => csvLines'[i] = csvLines[i]
        /\ (csvLast'.op = "set_line" /\ csvLast'.a >= Len(csvLines)) =>
            csvLines' = Append(csvLines, csvLast'.row)
        /\ csvLast'.op = "add_line" =>
            csvLines' = Append(csvLines, csvLast'.row)
      ]_vars

\* set_line with an index past the end was called on a table of two rows whose
\* cursor had moved: the table has three rows and the new one is the last.
C22_Witness ==
    /\ csvLast.op = "set_line" /\ csvLast.a > 2
    /\ Len(csvLines) = 3 /\ csvLines[3] = csvLast.row /\ csvLast.row # <<>>
    /\ csvIndex = 1

\* C28: a for loop over a CSV object that runs to its end was given every row
\* of the table once, in order, whatever read_line calls and complete or
\* partial loops came before on the same object.
C28_IterationYieldsAllRows ==
    itLoop = "done" => itYield = csvLines

\* C24: for every list of functions and every max_threads >= 1, the number of
\* worker threads run_many starts never exceeds max_threads.
C24_ThreadsWithinMax ==
    Len(rmThreads) <= rmIn.max_threads

C30_DefaultArgs ==
    (~rmIn.args.given /\ rmIn.funcs # <<>>) =>
        /\ rmMain.pc # "raised"
        /\ rmMain.pc = "returned" => \A f \in 1..Len(rmIn.funcs) : rmCalls[f] = << <<>> >>

\* A piece of text, an opening tag, a closing tag; the name in a tag.
IsText(piece) == piece[1] # "<"
IsClose(piece) == ~IsText(piece) /\ piece[2] = "/"
IsOpen(piece) == ~IsText(piece) /\ ~IsClose(piece)
TagName(piece) ==
    IF IsClose(piece) THEN SubSeq(piece, 3, Len(piece) - 1)
    ELSE SubSeq(piece, 2, Len(piece) - 1)

\* The names of the tags that are open after the first k pieces, innermost
\* last; "?" marks a closing tag with nothing to close or with another name
\* than the innermost open tag.
RECURSIVE OpenTags(_, _)
OpenTags(pieces, k) ==
    IF k = 0 THEN <<>>
    ELSE LET before == OpenTags(pieces, k - 1)
             piece == pieces[k]
         IN  IF before # <<>> /\ before[Len(before)] = <<"?">> THEN before
             ELSE IF IsText(piece) THEN before
             ELSE IF IsOpen(piece) THEN Append(before, TagName(piece))
             ELSE IF before = <<>>
                     \/ (TagName(piece) # <<>> /\ TagName(piece) # before[Len(before)])
             THEN Append(before, <<"?">>)
             ELSE SubSeq(before, 1, Len(before) - 1)

\* Every closing tag closes the innermost open tag.
WellNested(pieces) ==
    LET open == OpenTags(pieces, Len(pieces))
    IN  open = <<>> \/ open[Len(open)] # <<"?">>

\* The pieces of text that start a run of text: the first piece, or one that
\* follows a tag.
RunStarts(pieces) ==
    {k \in 1..Len(pieces) : IsText(pieces[k]) /\ (k = 1 \/ ~IsText(pieces[k - 1]))}

\* The run of text that starts at piece k.
RECURSIVE RunFrom(_, _)
RunFrom(pieces, k) ==
    IF k > Len(pieces) \/ ~IsText(pieces[k]) THEN <<>>
    ELSE pieces[k] \o RunFrom(pieces, k + 1)

\* The runs of text with the tags open around each, in the order of the input.
ExpectedSegments(pieces) ==
    [n \in 1..Cardinality(RunStarts(pieces)) |->
        LET k == Nth(RunStarts(pieces), n)
        IN  [text |-> RunFrom(pieces, k), open |-> OpenTags(pieces, k)]]

\* C25: for a string whose closing tags each close the innermost open tag,
\* parse emits the runs of text between the tags in order, each run inside a
\* tag with the colour of the innermost tag open around it, so that text after
\* an inner closing tag has the colour of the enclosing tag again; the texts
\* emitted, concatenated, are the input without its tags.
C25_ParseColorStack ==
    (ctDone /\ WellNested(ctIn)) =>
        LET expected == ExpectedSegments(ctIn)
        IN  /\ Len(ctOut) = Len(expected)
            /\ \A n \in 1..Len(ctOut) :
                /\ ctOut[n].text = expected[n].text
                /\ expected[n].open # <<>> =>
                    ctOut[n].color =
                        ColorHelper_get_color(expected[n].open[Len(expected[n].open)])
            /\ Concat([n \in 1..Len(ctOut) |-> ctOut[n].text]) =
                    Concat([k \in 1..Len(ctIn) |-> IF IsText(ctIn[k]) THEN ctIn[k] ELSE <<>>])

\* parse of the example: text in red, text in white inside it, text in red
\* again after the inner closing tag.
C25_Witness ==
    /\ ctDone /\ ctIn = ExamplePieces
    /\ ctOut = <<[text |-> <<"a">>, color |-> "#FF0000"],
                 [text |-> <<"b">>, color |-> "#FFFFFF"],
                 [text |-> <<"a">>, color |-> "#FF0000"]>>

\* C26: when clear_story has finished in the all-chapters mode with the
\* progress p, every selected chapter has progress p, its stages before p
\* cleared and its stages after p up to 47 not cleared.
C26_AllChaptersProgress ==
    (stLast.op = "clear_story" /\ ~stLast.raised /\ stLast.a = 1) =>
        \A k \in 1..Len(stLast.ids) :
            stLast.answers[k] >= 0 =>
                LET ch == story[ContainerIndex(stLast.ids[k]) + 1]
                    p == stLast.answers[k]
                IN  /\ ch.progress = p
                    /\ \A i \in 0..(p - 1) : StageCleared(ch, i)
                    /\ \A i \in (p + 1)..47 : StageUncleared(ch, i)

\* The number of integers of the count headers: one header of three when the
\* flag is false, four headers (2, 2, 3, 2) when it is true.
HeaderInts(flag) == IF flag THEN 2 + 2 + 3 + 2 ELSE 3

\* The number of integers of the four field passes.
FieldInts(chapters) ==
    LET all == AllChapters(chapters)
    IN  3 * Len(all) + Len(Concat([k \in 1..Len(all) |-> all[k].stages]))

\* C23: for every container of uniform shape with 0 or more groups, chapters
\* per group and stages per chapter, and either value of the flag,
\* Chapters.write(flag) returns a stream holding the field values and the
\* count headers (four headers when the flag is true, one when it is false),
\* and Chapters.read(flag) on it consumes the whole stream and gives a
\* container with the same selected_stage, clear_progress, clear_times and
\* chapter_unlock_state values.
C23_ChaptersRoundTrip ==
    /\ kcLast.op = "write" =>
        /\ ~kcLast.raised
        /\ Len(kcOut) = HeaderInts(kcFlag) + FieldInts(kcChapters)
    /\ kcLast.op = "read" =>
        /\ ~kcLast.raised
        /\ kcLast.pos = Len(kcOut)
        /\ AllChapters(kcBack) = AllChapters(kcChapters)

\* C29: set_trade_progress on save data whose storage has no slot of type 0
\* returns the save data as they were, trade_progress["Value"] included; when
\* a slot of type 0 exists, exactly the first such slot gets id 1 and type 2,
\* every other slot is unchanged and trade_progress["Value"] is 5 times the
\* ticket count.
C29_TradeProgress ==
    [][tpOps' = tpOps + 1 =>
        IF FreeSlots(tpStats.cat_storage) = {}
        THEN tpStats' = tpStats
        ELSE LET first == Least(FreeSlots(tpStats.cat_storage))
             IN  /\ tpStats'.cat_storage.ids[first] = 1
                 /\ tpStats'.cat_storage.types[first] = 2
                 /\ Len(tpStats'.cat_storage.ids) = Len(tpStats.cat_storage.ids)
                 /\ Len(tpStats'.cat_storage.types) = Len(tpStats.cat_storage.types)
                 /\ \A i \in 1..Len(tpStats.cat_storage.types) :
                        i # first =>
                            /\ tpStats'.cat_storage.ids[i] = tpStats.cat_storage.ids[i]
                            /\ tpStats'.cat_storage.types[i] = tpStats.cat_storage.types[i]
                 /\ tpStats'.trade_progress.Value = 5 * tpLast'.tickets
                 /\ tpStats'.rare_tickets = tpStats.rare_tickets
      ]_vars

====
